---- MODULE Spec2Model ----
(***************************************************************************)
(* arXiv LaTeX translation service (backend/app/custom_tools/              *)
(* arxiv_translate): the guarded translator (splitter.py, translator.py)   *)
(* and the job orchestrator (service.py).                                  *)
(*                                                                         *)
(* Texts are sequences of tokens.  A token is a string standing for one    *)
(* character or for one LaTeX control word: "{", "}", " ", "\n", "a" (a    *)
(* letter), "%", "_", "\\%", "\\_", "\\" (a lone backslash), "FENCE" (a    *)
(* Markdown fence), "\\begin", "\\end", "\\item", "\\caption", "U+FF1A"    *)
(* and "U+FF0C" (full-width colon and comma), ":" and ",", and one token   *)
(* per refusal signal of the guard.                                        *)
(***************************************************************************)
EXTENDS Integers, Sequences, FiniteSets, TLC

(***************************************************************************)
(* Generic helpers.                                                        *)
(***************************************************************************)
Min(S) == CHOOSE x \in S : \A y \in S : x <= y

Max2(a, b) == IF a >= b THEN a ELSE b

Min2(a, b) == IF a <= b THEN a ELSE b

RECURSIVE SumSeq(_)
SumSeq(s) == IF s = << >> THEN 0 ELSE Head(s) + SumSeq(Tail(s))

\* All sequences over alphabet A of length at most n.
SeqsUpTo(A, n) == UNION { [1..k -> A] : k \in 0..n }

(***************************************************************************)
(* Token-level string primitives of Python used by splitter.py.            *)
(***************************************************************************)
\* str.strip()/lstrip()/rstrip() remove these.
IsSpace(t) == t \in {" ", "\n"}

IsLetter(t) == t = "a"

\* len() of the text a token stands for.
TokLen(t) ==
    CASE t = "\\begin"   -> 6
      [] t = "\\end"     -> 4
      [] t = "\\item"    -> 5
      [] t = "\\caption" -> 8
      [] t = "FENCE"       -> 3
      [] t \in {"\\%", "\\_"} -> 2
      [] t = "Traceback" -> 9
      [] t = "[Local Message]" -> 15
      [] t = "Please provide the LaTeX" -> 24
      [] t \in {"I cannot comply", "I can(U+0027)t comply", "I can(U+2019)t comply"} -> 15
      [] t = "zh:sorry-cannot" -> 6
      [] t = "zh:formula-needs-no-translation" -> 6
      [] t = "zh:please-provide-your-latex-fragment" -> 19
      [] t = "zh:please-provide-latex-fragment" -> 17
      [] OTHER -> 1

RECURSIVE CharLen(_)
CharLen(s) == IF s = << >> THEN 0 ELSE TokLen(Head(s)) + CharLen(Tail(s))

\* Number of letters a token contributes to a control word that starts at
\* it (the token is a backslash followed by that many letters), -1 when no
\* control word starts at the token.
NameStartLetters(t) ==
    CASE t = "\\begin"   -> 5
      [] t = "\\end"     -> 3
      [] t = "\\item"    -> 4
      [] t = "\\caption" -> 7
      [] t = "\\"        -> 0
      [] OTHER -> 0 - 1

\* str.count(tok) for a control word or "{" / "}".
Count(s, tok) == Cardinality({ i \in 1..Len(s) : s[i] = tok })

LeadLen(s) ==
    LET ns == { i \in 1..Len(s) : ~IsSpace(s[i]) }
    IN  IF ns = {} THEN Len(s) ELSE Min(ns) - 1

TrailLen(s) ==
    LET ns == { i \in 1..Len(s) : ~IsSpace(s[i]) }
    IN  IF ns = {} THEN Len(s) ELSE Len(s) - (CHOOSE x \in ns : \A y \in ns : y <= x)

LStrip(s) == SubSeq(s, LeadLen(s) + 1, Len(s))

RStrip(s) == SubSeq(s, 1, Len(s) - TrailLen(s))

Strip(s) == RStrip(LStrip(s))

\* str.splitlines(): the lines of s without their "\n"; a final "\n" opens
\* no further line.
RECURSIVE SplitLines(_)
SplitLines(s) ==
    IF s = << >> THEN << >>
    ELSE LET nl == { i \in 1..Len(s) : s[i] = "\n" }
         IN  IF nl = {} THEN << s >>
             ELSE LET k == Min(nl)
                  IN  << SubSeq(s, 1, k - 1) >> \o SplitLines(SubSeq(s, k + 1, Len(s)))

\* "\n".join(lines)
RECURSIVE JoinLines(_)
JoinLines(lines) ==
    IF lines = << >> THEN << >>
    ELSE IF Len(lines) = 1 THEN lines[1]
    ELSE lines[1] \o << "\n" >> \o JoinLines(Tail(lines))

StartsWithFence(line) == Len(line) >= 1 /\ line[1] = "FENCE"

(***************************************************************************)
(* splitter.py: normalize_llm_translated_chunk                             *)
(***************************************************************************)
normalize_llm_translated_chunk(text) ==
    LET out == Strip(text)
    IN  IF StartsWithFence(out)
        THEN LET lines == SplitLines(out)
             IN  IF /\ Len(lines) >= 2
                    /\ StartsWithFence(lines[1])
                    /\ StartsWithFence(lines[Len(lines)])
                 THEN Strip(JoinLines(SubSeq(lines, 2, Len(lines) - 1)))
                 ELSE out
        ELSE out

(***************************************************************************)
(* splitter.py: the pieces of guard_translated_segment                     *)
(***************************************************************************)
banned_signals ==
    { "Traceback", "[Local Message]", "zh:sorry-cannot",
      "zh:formula-needs-no-translation",
      "zh:please-provide-your-latex-fragment",
      "zh:please-provide-latex-fragment",
      "Please provide the LaTeX", "I cannot comply",
      "I can(U+2019)t comply", "I can(U+0027)t comply" }

ContainsBanned(out) == \E i \in 1..Len(out) : out[i] \in banned_signals

PrecededByBackslash(s, i) == i > 1 /\ s[i - 1] = "\\"

\* re.sub(r"(?<!\\)%", r"\\%", out)
EscapePercent(s) ==
    [ i \in 1..Len(s) |->
        IF s[i] = "%" /\ ~PrecededByBackslash(s, i) THEN "\\%" ELSE s[i] ]

\* The control word that starts at token i: the position just after its
\* last letter when it has 2..20 letters (the token's own letters and the
\* letter tokens that follow), 0 otherwise.
NameEnd(s, i) ==
    IF i > Len(s) \/ NameStartLetters(s[i]) < 0 THEN 0
    ELSE LET stop == { k \in (i + 1)..(Len(s) + 1) : k = Len(s) + 1 \/ ~IsLetter(s[k]) }
             e    == Min(stop)
             n    == NameStartLetters(s[i]) + (e - i - 1)
         IN  IF n >= 2 /\ n <= 20 THEN e ELSE 0

\* Drop the tokens of s at the positions in D.
RECURSIVE DropAt(_, _, _)
DropAt(s, D, i) ==
    IF i > Len(s) THEN << >>
    ELSE (IF i \in D THEN << >> ELSE << s[i] >>) \o DropAt(s, D, i + 1)

\* re.sub(r"\\([a-zA-Z]{2,20})\ \{", r"\\\1{", out): the space between a
\* control word and its opening brace is removed.
FixCommandSpace(s) ==
    LET D == { j \in 2..(Len(s) - 1) :
                 /\ s[j] = " "
                 /\ s[j + 1] = "{"
                 /\ \E i \in 1..(j - 1) : NameEnd(s, i) = j }
    IN  DropAt(s, D, 1)

\* re.sub(r"\\\ ([a-zA-Z]{2,20})\{", r"\\\1{", out): the space between a
\* backslash and a control word followed by "{" is removed.
FixBackslashSpace(s) ==
    LET D == { j \in 2..(Len(s) - 1) :
                 /\ s[j] = " "
                 /\ s[j - 1] = "\\"
                 /\ LET stop == { k \in (j + 1)..(Len(s) + 1) : k = Len(s) + 1 \/ ~IsLetter(s[k]) }
                        e    == Min(stop)
                    IN  /\ e - j - 1 >= 2
                        /\ e - j - 1 <= 20
                        /\ e <= Len(s)
                        /\ s[e] = "{" }
    IN  DropAt(s, D, 1)

\* _mod_in_bracket on one payload token.
ModPunct(t) ==
    IF t = "U+FF1A" THEN ":" ELSE IF t = "U+FF0C" THEN "," ELSE t

\* re.sub(r"\\([a-zA-Z]{2,20})\{([^\}]*?)\}", _mod_in_bracket, out),
\* scanning for non-overlapping matches from token i on.
RECURSIVE ModInBracketFrom(_, _)
ModInBracketFrom(s, i) ==
    IF i > Len(s) THEN s
    ELSE LET b == NameEnd(s, i)
         IN  IF b = 0 \/ b > Len(s) \/ s[b] # "{" THEN ModInBracketFrom(s, i + 1)
             ELSE LET closes == { k \in (b + 1)..Len(s) : s[k] = "}" }
                  IN  IF closes = {} THEN ModInBracketFrom(s, i + 1)
                      ELSE LET c == Min(closes)
                           IN  ModInBracketFrom(
                                   [ k \in 1..Len(s) |->
                                       IF k > b /\ k < c THEN ModPunct(s[k]) ELSE s[k] ],
                                   c + 1)

\* str.count(r"\_")
CountEscapedUnderscore(s) ==
    Cardinality({ i \in 1..Len(s) :
                    \/ s[i] = "\\_"
                    \/ (s[i] = "_" /\ PrecededByBackslash(s, i)) })

\* re.sub(r"(?<!\\)_", r"\\_", out)
EscapeUnderscore(s) ==
    [ i \in 1..Len(s) |->
        IF s[i] = "_" /\ ~PrecededByBackslash(s, i) THEN "\\_" ELSE s[i] ]

_brace_level(s) == Count(s, "{") - Count(s, "}")

\* _join_most: p_t and p_o count the tokens already consumed.
RECURSIVE JoinMostLoop(_, _, _, _)
JoinMostLoop(translated, original, p_t, p_o) ==
    LET nextO == { k \in (p_o + 1)..Len(original) : original[k] \in {"{", "}"} }
        cut   == SubSeq(translated, 1, p_t) \o SubSeq(original, p_o + 1, Len(original))
    IN  IF nextO = {} THEN cut
        ELSE LET res_o == Min(nextO)
                 ch    == original[res_o]
                 nextT == { k \in (p_t + 1)..Len(translated) : translated[k] = ch }
             IN  IF nextT = {} THEN cut
                 ELSE JoinMostLoop(translated, original, Min(nextT), res_o)

_join_most(translated, original) == JoinMostLoop(translated, original, 0, 0)

\* _restore_edge_whitespace
_restore_edge_whitespace(original, translated) ==
    IF original = << >> THEN translated
    ELSE LET lead_len  == LeadLen(original)
             trail_len == TrailLen(original)
             lead  == SubSeq(original, 1, lead_len)
             trail == SubSeq(original, Len(original) - trail_len + 1, Len(original))
         IN  lead \o Strip(translated) \o trail

\* The four substitutions applied to the normalised answer, in order.
GuardNormalize(out) ==
    ModInBracketFrom(FixBackslashSpace(FixCommandSpace(EscapePercent(out))), 1)

\* The realignment without the second comparison of the levels.
GuardBracesUnchecked(original, out) ==
    LET joined == IF _brace_level(out) # _brace_level(original)
                  THEN _join_most(out, original) ELSE out
    IN  _restore_edge_whitespace(original, joined)

\* The brace realignment step and what follows it.
GuardBraces(original, out) ==
    LET joined == IF _brace_level(out) # _brace_level(original)
                  THEN _join_most(out, original) ELSE out
    IN  IF _brace_level(joined) # _brace_level(original) THEN original
        ELSE IF CharLen(original) >= 200 /\ CharLen(joined) > CharLen(original) * 3
        THEN original
        ELSE _restore_edge_whitespace(original, joined)

guard_translated_segment(original, translated) ==
    LET out0 == normalize_llm_translated_chunk(translated)
    IN  IF out0 = << >> THEN original
        ELSE IF ContainsBanned(out0) THEN original
        ELSE LET out1 == GuardNormalize(out0)
             IN  IF \/ Count(original, "\\begin") # Count(out1, "\\begin")
                    \/ Count(original, "\\end") # Count(out1, "\\end")
                    \/ Count(original, "\\item") # Count(out1, "\\item")
                    \/ Count(original, "\\caption") # Count(out1, "\\caption")
                 THEN original
                 ELSE LET out2 == IF /\ CountEscapedUnderscore(original) > 0
                                     /\ CountEscapedUnderscore(original) > CountEscapedUnderscore(out1)
                                  THEN EscapeUnderscore(out1) ELSE out1
                      IN  GuardBraces(original, out2)


(***************************************************************************)
(* Bounds of the model.                                                    *)
(***************************************************************************)
\* Tex files of a project, and translatable chunks of one file.
MaxFiles == 2

MaxChunks == 2

\* Lengths of the texts handed to the guard on its own.
MaxOrigLen == 2

MaxTransLen == 3

\* The backend calls of one chunk are counted up to this number.
MaxCalls == 4

(***************************************************************************)
(* defaults.py (small stand-ins for the configured defaults).              *)
(***************************************************************************)
DEFAULT_MAX_COMPILE_TRIES == 2

DEFAULT_CONCURRENCY == 2

DEFAULT_MAX_CHUNKS == 2

DEFAULT_COMPILE_REPAIR_BASE_WINDOW == 1

(***************************************************************************)
(* State.                                                                  *)
(***************************************************************************)
VARIABLES
    jobs,              \* _jobs: the ids in the in-memory registry
    job,               \* the job dict: the fields _snapshot copies
    cancel_requested,  \* job["_cancel_requested"]
    disk,              \* the job.json written by _persist_job
    payload,           \* job["_payload"]
    task,              \* job["_task"]: pc (the await it is suspended at), must_cancel
    fut,               \* the future the job task awaits: state, value
    loc,               \* local variables of _run_job
    tr,                \* local variables of the running translate_chunks call (and the
                       \* calls made per chunk, the order the chunks completed in)
    progress,          \* the (done, total) pairs on_progress was called with
    gOriginal,         \* guard_translated_segment: argument original
    gTranslated,       \* guard_translated_segment: argument translated
    gResult,           \* guard_translated_segment: returned text
    gPc,               \* "input" before the call, "returned" after it
    reply,             \* what the last call of create_job, get_job or cancel_job returned
    prior,             \* a job.json an earlier run left in the data directory, and
                       \* the files of its output directory
    paper,             \* job["canonical_id"]
    sText,             \* segment_latex_text, build_translation_segments: argument text
    sMask,             \* the mask _build_translation_mask computes for the text
    sMaxTokens,        \* build_translation_segments: argument max_tokens
    sSegments,         \* what segment_latex_text returned
    sBuilt,            \* what build_translation_segments returned
    sPc,               \* "input" before the calls, "returned" after them
    cRun,              \* a call of compile_latex_project: what the commands of this
                       \* attempt do, and the local variables of the call
    hist,              \* a call of list_jobs: the records and jobs it reads, its
                       \* arguments and the rows it returned
    store              \* the data directory over a restart: the job.json files and
                       \* output directories in it, and what the lookups found

jobVars == << jobs, job, cancel_requested, disk, payload, task, fut, loc, tr, progress >>

guardVars == << gOriginal, gTranslated, gResult, gPc >>

apiVars == << reply, prior, paper >>

splitVars == << sText, sMask, sMaxTokens, sSegments, sBuilt, sPc >>

toolVars == << cRun, hist, store >>

vars == << jobs, job, cancel_requested, disk, payload, task, fut, loc, tr,
           progress, gOriginal, gTranslated, gResult, gPc,
           reply, prior, paper, sText, sMask, sMaxTokens, sSegments, sBuilt, sPc,
           cRun, hist, store >>

JobId == "job-1"

TerminalStatuses == {"succeeded", "failed", "cancelled"}

NoJob ==
    [ status |-> "absent", error |-> << >>, steps |-> << >>, artifacts |-> << >>,
      meta |-> [ translated_chunks |-> 0, total_chunks |-> 0, compile_attempts |-> 0,
                 guard_fallback_chunks |-> 0, traceback |-> FALSE,
                 main_tex |-> 0, tex_files |-> 0, original_pdf_url |-> "unset" ] ]

NoPayload ==
    [ chinese |-> FALSE, concurrency |-> 0, max_compile_tries |-> 0, api_key |-> FALSE,
      model |-> FALSE ]

\* No call has returned.
NoReply ==
    [ op |-> "none", outcome |-> "none", input_text |-> << >>, allow_cache |-> FALSE,
      id |-> "none", job_id |-> "none", snapshot |-> NoJob, cache_hit |-> FALSE ]

\* No earlier record in the data directory.
NoPrior == [ record |-> NoJob, files |-> << >> ]

NoFuture == [ state |-> "none", value |-> "none" ]

Pending == [ state |-> "pending", value |-> "none" ]

\* first_error.found = FALSE: the log names no error line.
NoError == [ found |-> FALSE, file_rel |-> 0, line |-> 0 ]

NoCompileResult == [ compile_ok |-> FALSE, first_error |-> NoError, compiler |-> "none" ]

NoLocals ==
    [ tex_files |-> << >>, file |-> 0, translated_done |-> 0, file_states |-> << >>,
      max_compile_tries |-> 0, force_compiler |-> "none", attempt |-> 0,
      compile_result |-> NoCompileResult ]

NoTranslate ==
    [ chunks |-> << >>, concurrency |-> 0, wpc |-> << >>, attempt |-> << >>,
      calls |-> << >>, last_err |-> << >>, sem |-> 0, waiters |-> << >>,
      translated |-> << >>, done |-> 0, order |-> << >>, cancelled |-> FALSE,
      translated_done |-> 0 ]

(***************************************************************************)
(* service.py: job dict helpers.                                           *)
(***************************************************************************)
\* _snapshot: every modelled field of the job dict is a snapshot field.
_snapshot(j) == j

\* An _append_step that puts the new entry in front.
AppendStepInFront(j, key, status) ==
    [ j EXCEPT !.steps = << [ step_id |-> Len(@) + 1, key |-> key, status |-> status ] >> \o @ ]

\* The step_id "s" + str(len(steps) + 1) is modelled by the number.
_append_step(j, key, status) ==
    [ j EXCEPT !.steps = Append(@, [ step_id |-> Len(@) + 1, key |-> key, status |-> status ]) ]

IsTerminalNever(status) == FALSE

IsTerminal(status) == status \in TerminalStatuses

\* except asyncio.CancelledError in _run_job
OnCancelled(j) == _append_step([ j EXCEPT !.status = "cancelled" ], "cancel", "done")

OnExceptionSilent(j, exc) ==
    _append_step([ j EXCEPT !.status = "failed" ], "error", "error")

\* except Exception in _run_job
OnException(j, exc) ==
    LET j1 == [ j EXCEPT !.status = "failed", !.error = exc ]
        j2 == _append_step(j1, "error", "error")
    IN  [ j2 EXCEPT !.meta.traceback = TRUE ]

TaskCancelIgnored(t) == t

\* Task.cancel(): CancelledError is thrown into the task at its next step.
TaskCancel(t) == [ t EXCEPT !.must_cancel = TRUE ]


(***************************************************************************)
(* The project a job works on: tex files, each a list of segments.  File f *)
(* with n chunks is one protected segment followed by n translatable ones, *)
(* each on a line of its own.                                              *)
(***************************************************************************)
FileTok == << "f1", "f2", "f3" >>

WordTok == << "w1", "w2", "w3" >>

Projects ==
    { p \in UNION { [1..k -> 0..MaxChunks] : k \in 1..MaxFiles } :
        \A f \in 1..Len(p) : f <= Len(FileTok) /\ p[f] <= Len(WordTok) }

ChunkText(f, i) == << FileTok[f], WordTok[i], "\n" >>

\* _recompute_segment_lines, from the segment at index i on.
RECURSIVE RecomputeFrom(_, _, _)
RecomputeFrom(segments, i, line_cursor) ==
    IF i > Len(segments) THEN segments
    ELSE LET nxt == line_cursor + Count(segments[i].current, "\n")
         IN  RecomputeFrom(
                 [ segments EXCEPT ![i].start_line = line_cursor, ![i].end_line = nxt ],
                 i + 1, nxt)

_recompute_segment_lines(segments) == RecomputeFrom(segments, 1, 1)

\* The protected text a file starts with: a section heading, in the second
\* file one that is bold already; the first file is the main tex file and
\* holds the \\documentclass (find_main_tex_file accepts no other file).
Heading(f) ==
    IF f = 2 THEN << "\\section", "{", "\\textbf", "{", "T", "}", "}", "\n" >>
    ELSE IF f = 1
    THEN << "\\documentclass", "{", "article", "}", "\\section", "{", "T", "}", "\n" >>
    ELSE << "\\section", "{", "T", "}", "\n" >>

\* The segment states _run_job builds for file f (build_translation_segments
\* numbers the lines the same way).
\* The second file ends with a translatable segment of white space only.
BlankTail(f) == IF f = 2 THEN 1 ELSE 0

StateSegments(f, n) ==
    _recompute_segment_lines(
        [ i \in 1..(n + 1 + BlankTail(f)) |->
            IF i = 1
            THEN [ original |-> Heading(f), current |-> Heading(f),
                   translatable |-> FALSE, start_line |-> 1, end_line |-> 1 ]
            ELSE IF i > n + 1
            THEN [ original |-> << " " >>, current |-> << " " >>,
                   translatable |-> TRUE, start_line |-> 1, end_line |-> 1 ]
            ELSE [ original |-> ChunkText(f, i - 1), current |-> ChunkText(f, i - 1),
                   translatable |-> TRUE, start_line |-> 1, end_line |-> 1 ] ])

\* translatable_indices: the segments sent to the translator, in order.
RECURSIVE TranslatableFrom(_, _)
TranslatableFrom(segments, i) ==
    IF i > Len(segments) THEN << >>
    ELSE (IF segments[i].translatable /\ Strip(segments[i].original) # << >>
          THEN << i >> ELSE << >>) \o TranslatableFrom(segments, i + 1)

TranslatableIndices(segments) == TranslatableFrom(segments, 1)

ChunksOf(segments) ==
    LET idx == TranslatableIndices(segments)
    IN  [ k \in 1..Len(idx) |-> segments[idx[k]].original ]

\* An assembly that puts the segments in reverse order.
AssembleBackwards(segments) ==
    IF segments = << >> THEN << >>
    ELSE LET RECURSIVE Cat(_)
             Cat(i) == IF i < 1 THEN << >> ELSE segments[i].current \o Cat(i - 1)
         IN  Cat(Len(segments))

_assemble_segments(segments) ==
    IF segments = << >> THEN << >>
    ELSE LET RECURSIVE Cat(_)
             Cat(i) == IF i > Len(segments) THEN << >> ELSE segments[i].current \o Cat(i + 1)
         IN  Cat(1)

(***************************************************************************)
(* splitter.py: ensure_section_title_bold, on texts whose section commands *)
(* have no star and no optional argument.                                  *)
(***************************************************************************)
\* _find_matching_brace: the index of the brace closing the one at open_pos,
\* 0 when there is none.
MatchingBrace(text, open_pos) ==
    LET Level(i) == Cardinality({ k \in open_pos..i : text[k] = "{" })
                      - Cardinality({ k \in open_pos..i : text[k] = "}" })
        closes   == { i \in open_pos..Len(text) : Level(i) = 0 }
    IN  IF closes = {} THEN 0 ELSE Min(closes)

\* The brace the pattern of a section command at index i ends with (white
\* space may come before it), 0 when the pattern does not match at i.
SectionOpen(text, i) ==
    LET rest == { k \in (i + 1)..Len(text) : ~IsSpace(text[k]) }
    IN  IF text[i] = "\\section" /\ rest # {} /\ text[Min(rest)] = "{" THEN Min(rest) ELSE 0

\* The title holds \textbf{ or \bfseries once blanks and newlines are removed.
IsBold(title) ==
    LET normalized == SelectSeq(title, LAMBDA t : t \notin {" ", "\n"})
    IN  \/ \E k \in 1..(Len(normalized) - 1) :
             normalized[k] = "\\textbf" /\ normalized[k + 1] = "{"
        \/ \E k \in 1..Len(normalized) : normalized[k] = "\\bfseries"

\* The loop over the matches from index i on; cursor is the first index not
\* copied yet.
RECURSIVE BoldFrom(_, _, _, _)
BoldFrom(text, i, cursor, out_parts) ==
    IF i > Len(text)
    THEN IF out_parts = << >> THEN text ELSE out_parts \o SubSeq(text, cursor, Len(text))
    ELSE LET open_pos  == SectionOpen(text, i)
             close_pos == IF open_pos = 0 THEN 0 ELSE MatchingBrace(text, open_pos)
             title     == SubSeq(text, open_pos + 1, close_pos - 1)
         IN  IF open_pos = 0 THEN BoldFrom(text, i + 1, cursor, out_parts)
             ELSE IF close_pos = 0 THEN BoldFrom(text, open_pos + 1, cursor, out_parts)
             ELSE BoldFrom(text, open_pos + 1, close_pos,
                           out_parts \o SubSeq(text, cursor, open_pos)
                             \o (IF IsBold(title) THEN title
                                 ELSE << "\\textbf", "{" >> \o title \o << "}" >>))

ensure_section_title_bold(text) ==
    IF text = << >> THEN text ELSE BoldFrom(text, 1, 1, << >>)

(***************************************************************************)
(* compiler.py: ensure_ctex_support.  A \\usepackage line is one token.     *)
(***************************************************************************)
CtexPlain == "\\usepackage{ctex}"

CtexUtf8 == "\\usepackage[UTF8]{ctex}"

UrlPackage == "\\usepackage{url}"

_CJK_FALLBACK_BEGIN == "%% ARXIV_TRANSLATE_CJK_FONT_FALLBACK_BEGIN"

_CJK_FALLBACK_END == "%% ARXIV_TRANSLATE_CJK_FONT_FALLBACK_END"

\* The lines of the block between its first and its last line.
FallbackBodyLines == 20

_CJK_FALLBACK_BLOCK ==
    << _CJK_FALLBACK_BEGIN, "\n" >>
      \o [ i \in 1..(2 * FallbackBodyLines) |-> IF i % 2 = 1 THEN "cjk_font" ELSE "\n" ]
      \o << _CJK_FALLBACK_END >>

\* The end of the first match of \\documentclass(?:\[[^\]]*\])?\{[^}]+\}
\* that starts at i, 0 if none starts there.
DocumentclassEndAt(text, i) ==
    IF text[i] # "\\documentclass" THEN 0
    ELSE LET closes == { j \in (i + 1)..Len(text) : text[j] = "]" }
             brace  == IF i < Len(text) /\ text[i + 1] = "[" /\ closes # {}
                       THEN Min(closes) + 1 ELSE i + 1
             ends   == { j \in (brace + 1)..Len(text) : text[j] = "}" }
         IN  IF brace > Len(text) \/ text[brace] # "{" \/ ends = {} THEN 0
             ELSE IF Min(ends) = brace + 1 THEN 0
             ELSE Min(ends)

InsertAt(text, end, block) ==
    SubSeq(text, 1, end) \o << "\n" >> \o block \o << "\n" >>
      \o SubSeq(text, end + 1, Len(text))

_insert_after_documentclass(text, block) ==
    LET starts == { i \in 1..Len(text) : DocumentclassEndAt(text, i) # 0 }
    IN  IF starts = {} THEN text
        ELSE InsertAt(text, DocumentclassEndAt(text, Min(starts)), block)

_insert_after_ctex_package(text, block) ==
    LET found == { i \in 1..Len(text) : text[i] \in { CtexPlain, CtexUtf8 } }
    IN  IF found = {} THEN _insert_after_documentclass(text, block)
        ELSE InsertAt(text, Min(found), block)

\* "{url}" in text
HasUrl(text) ==
    \/ \E i \in 1..Len(text) : text[i] = UrlPackage
    \/ \E i \in 1..(Len(text) - 2) :
         text[i] = "{" /\ text[i + 1] = "url" /\ text[i + 2] = "}"

\* The text the file holds when the function returns, and what it returns.
ensure_ctex_support(text) ==
    LET has_ctex == \E i \in 1..Len(text) : text[i] \in { CtexPlain, CtexUtf8 }
        updated  == _insert_after_documentclass(text, << CtexUtf8 >>)
        t1       == IF has_ctex THEN text ELSE updated
        has_blk  == \E i \in 1..Len(t1) : t1[i] = _CJK_FALLBACK_BEGIN
        t2       == IF has_blk THEN t1 ELSE _insert_after_ctex_package(t1, _CJK_FALLBACK_BLOCK)
        t3       == IF HasUrl(t2) THEN t2 ELSE _insert_after_ctex_package(t2, << UrlPackage >>)
    IN  IF ~has_ctex /\ updated = text THEN [ text |-> text, changed |-> FALSE ]
        ELSE [ text |-> t3, changed |-> ~has_ctex \/ ~has_blk \/ ~HasUrl(t2) ]

(***************************************************************************)
(* The translation backend (a collaborator): what one chat completion for  *)
(* a chunk may answer.                                                     *)
(***************************************************************************)
BackendContents(chunk) ==
    LET core == Strip(chunk)
    IN  { << >>,
          << " " >>,
          << " ", "zh" >> \o core,
          << "FENCE", "\n", "zh" >> \o core \o << "\n", "FENCE" >>,
          << "\\item", "zh" >> \o core }

(***************************************************************************)
(* translator.py: translate_chunks and its workers.                        *)
(***************************************************************************)
retries == 3

SameAttempt(attempt) == attempt

\* for attempt in range(1, retries + 1): the next attempt
NextAttempt(attempt) == attempt + 1

ExhaustedLate(attempt) == attempt > retries

\* if attempt >= retries: break
Exhausted(attempt) == attempt >= retries

\* One more backend call of a chunk.
CountCall(calls) == Min2(calls + 1, MaxCalls)

SemaphoreWide(concurrency) == Max2(1, concurrency) + 1

\* asyncio.Semaphore(max(1, int(cfg.concurrency)))
SemaphoreInit(concurrency) == Max2(1, concurrency)

StoreInCompletionOrder(translated, index, result) ==
    [ translated EXCEPT ![Min({ k \in DOMAIN translated : translated[k] = << >> })] = result ]

\* translated[index] = result
StoreResult(translated, index, result) == [ translated EXCEPT ![index] = result ]

LostUpdate(done) == done

\* done += 1
NextDone(done) == done + 1

\* RuntimeError(f"... {last_err}")
WrapError(last_err) == << "translate_chunk_failed", last_err >>

TranslateRefusals == { "missing_api_key", "missing_model" }

\* A translate_chunks that looks at the chunk list first.
TranslateEntryEmptyFirst(cfg, chunks) ==
    IF chunks = << >> THEN "return_empty"
    ELSE IF ~cfg.api_key THEN "missing_api_key"
    ELSE IF ~cfg.model THEN "missing_model"
    ELSE "gather"

\* translate_chunks, lines 101-106: what the call does before it makes a
\* client; cfg.api_key and cfg.model say whether the string is non-empty.
TranslateEntry(cfg, chunks) ==
    IF ~cfg.api_key THEN "missing_api_key"
    ELSE IF ~cfg.model THEN "missing_model"
    ELSE IF chunks = << >> THEN "return_empty"
    ELSE "gather"

\* translated_done: the variable of _run_job the closure _on_progress reads;
\* it is not assigned while translate_chunks runs.
NewTranslate(chunks, concurrency, translated_done) ==
    [ chunks     |-> chunks,
      concurrency |-> concurrency,
      wpc        |-> [ i \in 1..Len(chunks) |-> "init" ],
      attempt    |-> [ i \in 1..Len(chunks) |-> 0 ],
      calls      |-> [ i \in 1..Len(chunks) |-> 0 ],
      last_err   |-> [ i \in 1..Len(chunks) |-> "none" ],
      sem        |-> SemaphoreInit(concurrency),
      waiters    |-> << >>,
      translated |-> [ i \in 1..Len(chunks) |-> << >> ],
      done       |-> 0,
      order      |-> << >>,
      cancelled  |-> FALSE,
      translated_done |-> translated_done ]

Workers == 1..Len(tr.chunks)

\* Semaphore.release() by a worker that holds a permit: the permit goes to
\* the first waiter, or back to the semaphore.
Release(t) ==
    IF t.waiters # << >>
    THEN [ t EXCEPT !.wpc[Head(t.waiters)] = "granted", !.waiters = Tail(@) ]
    ELSE [ t EXCEPT !.sem = @ + 1 ]

\* The worker enters _translate_one_chunk and issues its first call.
FirstCall(t, i) ==
    [ t EXCEPT !.wpc[i] = "calling", !.attempt[i] = 1, !.calls[i] = CountCall(@) ]

\* gather(): the awaiting job task learns the outcome only while it still
\* waits for this gather and no earlier outcome was set.
GatherWaits == task.pc = "translate" /\ fut.state = "pending"

\* worker(): async with semaphore, when the worker task first runs.
WorkerStart(i) ==
    /\ i \in Workers
    /\ tr.wpc[i] = "init"
    /\ ~tr.cancelled
    /\ \A j \in 1..(i - 1) : tr.wpc[j] # "init"
    /\ IF tr.sem > 0 /\ tr.waiters = << >>
       THEN tr' = FirstCall([ tr EXCEPT !.sem = @ - 1 ], i)
       ELSE tr' = [ tr EXCEPT !.wpc[i] = "wait_sem", !.waiters = Append(@, i) ]
    /\ UNCHANGED << jobs, job, cancel_requested, disk, payload, task, fut, loc,
                    progress, guardVars, apiVars, splitVars, toolVars >>

\* A waiter woken by release() resumes inside the semaphore.
WorkerGranted(i) ==
    /\ i \in Workers
    /\ tr.wpc[i] = "granted"
    /\ ~tr.cancelled
    /\ tr' = FirstCall(tr, i)
    /\ UNCHANGED << jobs, job, cancel_requested, disk, payload, task, fut, loc,
                    progress, guardVars, apiVars, splitVars, toolVars >>

\* _translate_one_chunk: the call raised, or answered empty text.
CallFails(i) ==
    /\ i \in Workers
    /\ tr.wpc[i] = "calling"
    /\ ~tr.cancelled
    /\ \E e \in {"transport_error", "empty_text"} :
         /\ e = "empty_text" => \E c \in BackendContents(tr.chunks[i]) : Strip(c) = << >>
         /\ IF Exhausted(tr.attempt[i])
            THEN /\ tr' = Release([ tr EXCEPT !.wpc[i] = "failed", !.last_err[i] = e ])
                 /\ fut' = IF GatherWaits
                           THEN [ state |-> "err", value |-> WrapError(e) ]
                           ELSE fut
            ELSE /\ tr' = [ tr EXCEPT !.wpc[i] = "sleeping", !.last_err[i] = e ]
                 /\ fut' = fut
    /\ UNCHANGED << jobs, job, cancel_requested, disk, payload, task, loc,
                    progress, guardVars, apiVars, splitVars, toolVars >>

\* _translate_one_chunk: asyncio.sleep(...) is over, the next attempt calls.
WorkerRetries(i) ==
    /\ i \in Workers
    /\ tr.wpc[i] = "sleeping"
    /\ ~tr.cancelled
    /\ tr' = [ tr EXCEPT !.wpc[i] = "calling", !.attempt[i] = NextAttempt(@),
                         !.calls[i] = CountCall(@) ]
    /\ UNCHANGED << jobs, job, cancel_requested, disk, payload, task, fut, loc,
                    progress, guardVars, apiVars, splitVars, toolVars >>

\* A progress report that adds the chunks of the file to a count that holds
\* them already.
OnProgressAddsAgain(j, translated_done, done) ==
    [ j EXCEPT !.meta.translated_chunks = @ + done ]

\* _run_job._on_progress
_on_progress(j, translated_done, done) ==
    [ j EXCEPT !.meta.translated_chunks = translated_done + done ]

\* _translate_one_chunk returned text: worker() stores it, leaves the
\* semaphore, counts the chunk and reports progress.
CallSucceeds(i) ==
    /\ i \in Workers
    /\ tr.wpc[i] = "calling"
    /\ ~tr.cancelled
    /\ \E content \in BackendContents(tr.chunks[i]) :
         /\ Strip(content) # << >>
         /\ LET result == normalize_llm_translated_chunk(Strip(content))
                t1 == [ tr EXCEPT !.translated = StoreResult(@, i, result),
                                  !.wpc[i] = "done", !.order = Append(@, i) ]
                t2 == [ Release(t1) EXCEPT !.done = NextDone(@) ]
            IN  /\ tr' = t2
                /\ job' = _on_progress(job, tr.translated_done, t2.done)
                /\ disk' = _snapshot(job')
                /\ progress' = Append(progress, << t2.done, Len(tr.chunks) >>)
                /\ fut' = IF GatherWaits /\ \A k \in Workers : t2.wpc[k] = "done"
                          THEN [ state |-> "ok", value |-> t2.translated ]
                          ELSE fut
    /\ UNCHANGED << jobs, cancel_requested, payload, task, loc, guardVars, apiVars, splitVars, toolVars >>

\* CancelledError reaches a worker that gather() cancelled.
WorkerCancelled(i) ==
    /\ i \in Workers
    /\ tr.cancelled
    /\ tr.wpc[i] \in {"init", "wait_sem", "granted", "calling", "sleeping"}
    /\ tr' = [ tr EXCEPT !.wpc[i] = "cancelled",
                         !.sem = IF tr.wpc[i] \in {"granted", "calling", "sleeping"}
                                 THEN @ + 1 ELSE @,
                         !.waiters = SelectSeq(@, LAMBDA w : w # i) ]
    /\ UNCHANGED << jobs, job, cancel_requested, disk, payload, task, fut, loc,
                    progress, guardVars, apiVars, splitVars, toolVars >>


(***************************************************************************)
(* service.py: _run_job.  One step of the job task runs from the await it  *)
(* was suspended at to the next await, to a raise or to the return.  A     *)
(* step is computed on m = [job, disk, loc] and ends in one of four ways.  *)
(***************************************************************************)
Mk(j, d, l) == [ job |-> j, disk |-> d, loc |-> l ]

\* _append_step(job, ...)
Step(m, key, status) == [ m EXCEPT !.job = _append_step(@, key, status) ]

\* _persist_job(job)
Persist(m) == [ m EXCEPT !.disk = _snapshot(m.job) ]

Await(m, pc) == [ m |-> m, kind |-> "await", pc |-> pc, exc |-> << >>, chunks |-> << >> ]

AwaitTranslate(m, chunks) ==
    [ m |-> m, kind |-> "await", pc |-> "translate", exc |-> << >>, chunks |-> chunks ]

Raise(m, exc) == [ m |-> m, kind |-> "raise", pc |-> "done", exc |-> exc, chunks |-> << >> ]

RaiseCancelled(m) ==
    [ m |-> m, kind |-> "cancel", pc |-> "done", exc |-> << >>, chunks |-> << >> ]

Return(m) == [ m |-> m, kind |-> "return", pc |-> "done", exc |-> << >>, chunks |-> << >> ]

\* _resolve_client_config: int(payload.get("concurrency") or DEFAULT_CONCURRENCY)
ResolvedConcurrency(p) == IF p.concurrency = 0 THEN DEFAULT_CONCURRENCY ELSE p.concurrency

\* The configured value without the upper limit.
ClampCompileTriesOpen(p) ==
    Max2(1, IF p.max_compile_tries = 0 THEN DEFAULT_MAX_COMPILE_TRIES
            ELSE p.max_compile_tries)

\* min(max(1, int(payload.get("max_compile_tries") or DEFAULT)), DEFAULT)
ClampCompileTries(p) ==
    Min2(Max2(1, IF p.max_compile_tries = 0 THEN DEFAULT_MAX_COMPILE_TRIES
                 ELSE p.max_compile_tries),
         DEFAULT_MAX_COMPILE_TRIES)

\* The job task is resumed with the result of the await at pc.
Resumed(pc) == task.pc = pc /\ ~task.must_cancel /\ fut.state = "ok"

\* The end of a step: what the try block of _run_job and its two handlers
\* leave behind.  The locals of a coroutine are gone once it has returned
\* (_run_job; translate_chunks when the task resumes with its result).
Commit(r) ==
    /\ job' = CASE r.kind = "raise"  -> OnException(r.m.job, r.exc)
                [] r.kind = "cancel" -> OnCancelled(r.m.job)
                [] OTHER             -> r.m.job
    /\ disk' = IF r.kind \in {"raise", "cancel"} THEN _snapshot(job') ELSE r.m.disk
    /\ loc' = IF r.kind = "await" THEN r.m.loc ELSE NoLocals
    /\ task' = [ task EXCEPT !.pc = r.pc ]
    /\ fut' = IF r.kind = "await" THEN Pending ELSE NoFuture
    /\ IF r.kind = "await" /\ r.pc = "translate"
       THEN /\ tr' = NewTranslate(r.chunks, ResolvedConcurrency(payload), r.m.loc.translated_done)
            /\ progress' = << >>
       ELSE /\ tr' = IF Resumed("translate") THEN NoTranslate ELSE tr
            /\ UNCHANGED progress
    /\ UNCHANGED << jobs, cancel_requested, payload, guardVars, apiVars, splitVars, toolVars >>

Here == Mk(job, disk, loc)

(***************************************************************************)
(* The compile-and-repair loop (lines 800-886).                            *)
(***************************************************************************)
\* How the message of the RuntimeError names a file and a line.
ErrFileName(file_rel) == IF file_rel = 0 THEN "other" ELSE FileTok[file_rel]

LineName == << "line1", "line2", "line3", "line4", "line5" >>

\* Lines 877-886: the detail is file_rel:line of the first error of
\* compile_result, when it has one.
CompileFailed(m) ==
    IF m.loc.compile_result.first_error.found
    THEN << "compile_failed", "first_error",
            ErrFileName(m.loc.compile_result.first_error.file_rel),
            LineName[m.loc.compile_result.first_error.line] >>
    ELSE << "compile_failed", "no_detail" >>

\* job["meta"]["compile_attempts"] = attempt ... await compile_latex_project
BeginCompile(m, attempt) ==
    LET m1 == [ m EXCEPT !.job.meta.compile_attempts = attempt, !.loc.attempt = attempt ]
    IN  Await(Persist(Step(m1, "compile_try", "running")), "compile")

\* A loop head that leaves the main tex file as the repair wrote it.
EnterAttemptAsWritten(m, attempt) ==
    IF cancel_requested THEN RaiseCancelled(m)
    ELSE BeginCompile(m, attempt)

\* The head of the for loop over attempts.
EnterAttempt(m, attempt) ==
    IF cancel_requested THEN RaiseCancelled(m)
    ELSE IF payload.chinese
    THEN Await([ m EXCEPT !.loc.attempt = attempt ], "ctex_ensure")
    ELSE BeginCompile(m, attempt)

\* Lines 797-809; xelatex is what command_exists("xelatex") answers.
ToCompile(m, xelatex) ==
    LET m1 == Persist(Step(m, "compile", "running"))
        m2 == [ m1 EXCEPT !.loc.max_compile_tries = ClampCompileTries(payload) ]
    IN  IF payload.chinese
        THEN IF xelatex THEN EnterAttempt([ m2 EXCEPT !.loc.force_compiler = "xelatex" ], 1)
             ELSE Raise(m2, << "xelatex_missing" >>)
        ELSE EnterAttempt(m2, 1)

(***************************************************************************)
(* The loop over the tex files (lines 714-795).                            *)
(***************************************************************************)
\* Lines 784-792: the file state, and the text written to dst_file.
\* completed (not in the code) records the order the chunks of the file
\* completed in; ctex_ensured (not in the code) says that ensure_ctex_support
\* went over the file since _run_job last wrote it.
FileState(f, segments) ==
    [ rel |-> f, segments |-> _recompute_segment_lines(segments), repaired_segments |-> 0,
      written |-> ensure_section_title_bold(_assemble_segments(segments)),
      completed |-> << >>, ctex_ensured |-> FALSE ]

\* The loop from file k on, up to the first await.
RECURSIVE RunFiles(_, _, _)
RunFiles(m, k, xelatex) ==
    IF k > Len(m.loc.tex_files)
    THEN IF payload.chinese THEN Await(m, "ctex_inject") ELSE ToCompile(m, xelatex)
    ELSE IF cancel_requested THEN RaiseCancelled(m)
    ELSE LET segments == StateSegments(k, m.loc.tex_files[k])
             chunks   == ChunksOf(segments)
         IN  IF chunks # << >>
             THEN LET m1 == Persist(Step([ m EXCEPT !.loc.file = k ],
                                         "translate_file", "running"))
                      entry == TranslateEntry(payload, chunks)
                  IN  IF entry \in TranslateRefusals THEN Raise(m1, << entry >>)
                      ELSE AwaitTranslate(m1, chunks)
             ELSE RunFiles([ m EXCEPT !.loc.file = k,
                                      !.loc.file_states = Append(@, FileState(k, segments)) ],
                           k + 1, xelatex)

\* A replacement of the segments' texts that skips the guard.
ApplyUnguarded(segments, idx, translated, k) ==
    [ segments |->
        [ i \in DOMAIN segments |->
            IF \E j \in 1..Min2(Len(idx), Len(translated)) : idx[j] = i
            THEN [ segments[i] EXCEPT !.current =
                     translated[CHOOSE j \in 1..Min2(Len(idx), Len(translated)) : idx[j] = i] ]
            ELSE segments[i] ],
      fallback |-> 0 ]

\* Lines 764-771: the guarded results replace the segments' current text.
RECURSIVE ApplyTranslated(_, _, _, _)
ApplyTranslated(segments, idx, translated, k) ==
    IF k > Len(idx) \/ k > Len(translated) THEN [ segments |-> segments, fallback |-> 0 ]
    ELSE LET original == segments[idx[k]].original
             guarded  == guard_translated_segment(original, translated[k])
             rest     == ApplyTranslated([ segments EXCEPT ![idx[k]].current = guarded ],
                                         idx, translated, k + 1)
             fell     == /\ guarded = original
                         /\ Strip(translated[k]) # << >>
                         /\ Strip(translated[k]) # Strip(original)
         IN  [ rest EXCEPT !.fallback = @ + (IF fell THEN 1 ELSE 0) ]


(***************************************************************************)
(* service.py: _repair_file_state.                                         *)
(***************************************************************************)
Translated(seg) == seg.translatable /\ seg.current # seg.original

\* _distance
Distance(seg, line) ==
    IF seg.start_line <= line /\ line <= seg.end_line THEN 0
    ELSE IF line < seg.start_line THEN seg.start_line - line
    ELSE line - seg.end_line

\* A repair that resets every translated segment of the file.
RepairTargetsWholeFile(segments, error_line, window) ==
    { i \in 1..Len(segments) : Translated(segments[i]) }

\* A repair that also takes the segments that hold their original text.
RepairTargetsUntranslated(segments, error_line, window) ==
    { i \in 1..Len(segments) : segments[i].translatable }

\* The segment indices _repair_file_state resets to the original text.
RepairTargets(segments, error_line, window) ==
    LET line == Max2(1, error_line)
        lo   == Max2(1, line - Max2(1, window))
        hi   == line + Max2(1, window)
        hit  == { i \in 1..Len(segments) :
                    /\ Translated(segments[i])
                    /\ ~(segments[i].end_line < lo \/ segments[i].start_line > hi) }
        cand == { i \in 1..Len(segments) : Translated(segments[i]) }
    IN  IF hit # {} THEN hit
        ELSE IF cand = {} THEN {}
        ELSE { Min({ i \in cand :
                       \A k \in cand : Distance(segments[i], line) <= Distance(segments[k], line) }) }

\* file_states after the repair; error_file_rel = 0 names no file of the job.
_repair_file_state(file_states, error_file_rel, error_line, window) ==
    IF error_file_rel \notin 1..Len(file_states)
    THEN [ file_states |-> file_states, repaired |-> FALSE ]
    ELSE LET state   == file_states[error_file_rel]
             targets == RepairTargets(state.segments, error_line, window)
             reset   == [ i \in 1..Len(state.segments) |->
                            IF i \in targets
                            THEN [ state.segments[i] EXCEPT !.current = state.segments[i].original ]
                            ELSE state.segments[i] ]
         IN  IF targets = {} THEN [ file_states |-> file_states, repaired |-> FALSE ]
             ELSE [ file_states |->
                      [ file_states EXCEPT ![error_file_rel] =
                          [ state EXCEPT !.segments = _recompute_segment_lines(reset),
                                         !.repaired_segments = @ + Cardinality(targets),
                                         !.written = ensure_section_title_bold(
                                                         _assemble_segments(reset)),
                                         !.ctex_ensured = FALSE ] ],
                    repaired |-> TRUE ]

(***************************************************************************)
(* Collaborators run by asyncio.to_thread.                                 *)
(***************************************************************************)
ThreadPcs ==
    { "download", "extract_archive", "normalize_root", "discover_tex", "find_main",
      "paper_title", "copy_tree", "ctex_inject", "ctex_ensure", "compile", "repair",
      "copy_pdf", "build_zip", "original_pdf" }

ErrLines == 1..(MaxChunks + 1)

\* compiler.py: detect_compiler; has_marker: the main tex file names one of
\* fontspec, xeCJK, xetex, unicode-math, xltxtra, xunicode, ctex.
detect_compiler(has_marker, xelatex) ==
    IF has_marker /\ xelatex THEN "xelatex" ELSE "pdflatex"

\* A compile that always looks at the main tex file for the engine.
CompilerDetected(force_compiler) == detect_compiler(FALSE, TRUE)

\* compile_latex_project, line 208: force_compiler or detect_compiler(...);
\* the tex files of the model hold none of the markers.
CompilerUsed(force_compiler) ==
    IF force_compiler # "none" THEN force_compiler ELSE detect_compiler(FALSE, TRUE)

\* compile_latex_project: compile_ok, first_error (file_rel 0: a file that
\* is not a tex file of the job) and the compiler it ran.
CompileResults ==
    { [ compile_ok |-> TRUE, first_error |-> NoError,
        compiler |-> CompilerUsed(loc.force_compiler) ] }
    \cup { [ compile_ok |-> FALSE, first_error |-> NoError,
             compiler |-> CompilerUsed(loc.force_compiler) ] }
    \cup { [ compile_ok |-> FALSE, compiler |-> CompilerUsed(loc.force_compiler),
             first_error |-> [ found |-> TRUE, file_rel |-> f, line |-> n ] ] :
             f \in 0..Len(loc.tex_files), n \in ErrLines }

\* meta.main_tex: the main tex file is the first tex file of the project.
main_tex_rel == 1

\* The text of a translated file as it is on disk: what _run_job wrote, and
\* for a file ensure_ctex_support went over, what that made of it.
OnDisk(state) ==
    IF state.ctex_ensured THEN ensure_ctex_support(state.written).text ELSE state.written

CtexPcs == { "ctex_inject", "ctex_ensure" }

\* What the function run in the thread may return.
ThreadValues(pc) ==
    CASE pc = "discover_tex" -> Projects
      [] pc \in CtexPcs ->
           { ensure_ctex_support(OnDisk(loc.file_states[main_tex_rel])).changed }
      [] pc = "original_pdf" -> BOOLEAN
      [] pc = "compile" -> CompileResults
      [] OTHER -> {"ok"}

\* ensure_ctex_support has read and, if it changed it, rewritten the main
\* tex file by the time it returns.
AfterThread(pc, locals) ==
    IF pc \in CtexPcs
    THEN [ locals EXCEPT !.file_states[main_tex_rel].ctex_ensured = TRUE ]
    ELSE locals

\* The thread's function returns or raises; the future of the await is done.
ThreadReturns ==
    /\ task.pc \in ThreadPcs \ {"repair"}
    /\ ~task.must_cancel
    /\ fut.state = "pending"
    /\ \/ /\ \E v \in ThreadValues(task.pc) : fut' = [ state |-> "ok", value |-> v ]
          /\ loc' = AfterThread(task.pc, loc)
       \/ /\ fut' = [ state |-> "err", value |-> << "raised_in", task.pc >> ]
          /\ loc' = loc
    /\ UNCHANGED << jobs, job, cancel_requested, disk, payload, task, tr,
                    progress, guardVars, apiVars, splitVars, toolVars >>

\* err_rel, err_line of lines 843-845 (the main tex file is the first one).
ErrRel(compile_result) ==
    IF ~compile_result.first_error.found THEN 1 ELSE compile_result.first_error.file_rel

\* The repair looking at the first line whatever the compiler reported.
ErrLineIgnored(compile_result) == 1

ErrLine(compile_result) ==
    IF ~compile_result.first_error.found THEN 1 ELSE compile_result.first_error.line

\* asyncio.to_thread(_repair_file_state, ...) runs.
RepairRuns ==
    /\ task.pc = "repair"
    /\ ~task.must_cancel
    /\ fut.state = "pending"
    /\ LET r == _repair_file_state(loc.file_states, ErrRel(loc.compile_result),
                                   ErrLine(loc.compile_result),
                                   DEFAULT_COMPILE_REPAIR_BASE_WINDOW * loc.attempt)
       IN  /\ loc' = [ loc EXCEPT !.file_states = r.file_states ]
           /\ fut' = [ state |-> "ok", value |-> r.repaired ]
    /\ UNCHANGED << jobs, job, cancel_requested, disk, payload, task, tr,
                    progress, guardVars, apiVars, splitVars, toolVars >>

(***************************************************************************)
(* service.py: create_job, cancel_job.                                     *)
(***************************************************************************)
\* payload.concurrency and payload.max_compile_tries: absent (0, so the
\* default applies), the smallest value, and a value above the default.
ConcurrencyInputs == {0, 1}

CompileTriesInputs == {0, 1, DEFAULT_MAX_COMPILE_TRIES + 1}

create_job_record_running ==
    _append_step([ NoJob EXCEPT !.status = "running" ], "queued", "done")

create_job_record ==
    _append_step([ NoJob EXCEPT !.status = "queued" ], "queued", "done")

CreateJob ==
    /\ jobs = {}
    /\ \E chinese \in BOOLEAN, concurrency \in ConcurrencyInputs,
          tries \in CompileTriesInputs, api_key \in BOOLEAN :
         payload' = [ chinese |-> chinese, concurrency |-> concurrency,
                      max_compile_tries |-> tries, api_key |-> api_key, model |-> TRUE ]
    /\ job' = create_job_record
    /\ disk' = _snapshot(job')
    /\ jobs' = {JobId}
    /\ task' = [ pc |-> "created", must_cancel |-> FALSE ]
    /\ UNCHANGED << cancel_requested, fut, loc, tr, progress, guardVars, apiVars, splitVars, toolVars >>

\* A cancel_job without the early return for a finished job.
CancelWhatever ==
    /\ JobId \in jobs
    /\ cancel_requested' = TRUE
    /\ task' = IF task.pc # "done" THEN TaskCancel(task) ELSE task
    /\ tr' = IF task.pc = "translate" /\ task' # task
             THEN [ tr EXCEPT !.cancelled = TRUE ] ELSE tr
    /\ job' = _append_step([ job EXCEPT !.status = "cancelled" ], "cancel", "done")
    /\ disk' = _snapshot(job')
    /\ UNCHANGED << jobs, payload, fut, loc, progress, guardVars, splitVars, toolVars >>

\* Lines 505-516, for the job of the registry.
CancelEffect ==
    /\ JobId \in jobs
    /\ IF IsTerminal(job.status)
       THEN UNCHANGED << job, cancel_requested, disk, task, tr >>
       ELSE /\ cancel_requested' = TRUE
            /\ task' = IF task.pc # "done" THEN TaskCancel(task) ELSE task
            /\ tr' = IF task.pc = "translate" /\ task' # task
                     THEN [ tr EXCEPT !.cancelled = TRUE ] ELSE tr
            /\ job' = _append_step([ job EXCEPT !.status = "cancelled" ], "cancel", "done")
            /\ disk' = _snapshot(job')
    /\ UNCHANGED << jobs, payload, fut, loc, progress, guardVars, splitVars, toolVars >>

CancelJob == CancelEffect /\ UNCHANGED apiVars

(***************************************************************************)
(* service.py: _run_job, step by step.                                     *)
(***************************************************************************)
\* The task was cancelled before its first step: the coroutine never runs.
TaskNeverStarts ==
    /\ task.pc = "created"
    /\ task.must_cancel
    /\ task' = [ task EXCEPT !.pc = "done" ]
    /\ UNCHANGED << jobs, job, cancel_requested, disk, payload, fut, loc, tr,
                    progress, guardVars, apiVars, splitVars, toolVars >>

\* except asyncio.CancelledError (lines 931-934)
TaskCancelled ==
    /\ task.pc \in ThreadPcs \cup {"translate"}
    /\ task.must_cancel
    /\ Commit(RaiseCancelled(Here))

\* except Exception (lines 935-940), for an exception raised by an await
TaskException ==
    /\ task.pc \in ThreadPcs \cup {"translate"}
    /\ ~task.must_cancel
    /\ fut.state = "err"
    /\ Commit(Raise(Here, fut.value))

\* A task that logs the download before the start.
StartTaskDownloadFirst ==
    /\ task.pc = "created"
    /\ ~task.must_cancel
    /\ LET m0 == [ Here EXCEPT !.job.status = "running" ]
           m1 == Persist(Step(m0, "download", "running"))
           m2 == Persist(Step(m1, "start", "running"))
       IN  Commit(Await(m2, "download"))

\* Lines 642-654
StartTask ==
    /\ task.pc = "created"
    /\ ~task.must_cancel
    /\ LET m0 == [ Here EXCEPT !.job.status = "running" ]
           m1 == Persist(Step(m0, "start", "running"))
           m2 == Persist(Step(m1, "download", "running"))
       IN  Commit(Await(m2, "download"))

\* Lines 655-659
AfterDownload ==
    /\ Resumed("download")
    /\ Commit(Await(Persist(Step(Step(Here, "download", "done"), "extract", "running")),
                    "extract_archive"))

AfterExtractArchive ==
    /\ Resumed("extract_archive")
    /\ Commit(Await(Here, "normalize_root"))

AfterNormalizeRoot ==
    /\ Resumed("normalize_root")
    /\ Commit(Await(Here, "discover_tex"))

AfterDiscoverTex ==
    /\ Resumed("discover_tex")
    /\ Commit(Await([ Here EXCEPT !.loc.tex_files = fut.value ], "find_main"))

\* Lines 663-665
AfterFindMain ==
    /\ Resumed("find_main")
    /\ Commit(Await([ Here EXCEPT !.job.meta.main_tex = 1,
                                  !.job.meta.tex_files = Len(loc.tex_files) ],
                    "paper_title"))

\* Lines 666-678
AfterPaperTitle ==
    /\ Resumed("paper_title")
    /\ Commit(Await(Step(Persist(Step(Here, "extract", "done")), "prepare", "running"),
                    "copy_tree"))

\* Lines 679-710, then the file loop
AfterCopyTree ==
    /\ Resumed("copy_tree")
    /\ LET m1 == Persist(Step(Here, "prepare", "done"))
           total_chunks == SumSeq(loc.tex_files)
       IN  IF total_chunks <= 0 THEN Commit(Raise(m1, << "no_translatable_chunks" >>))
           ELSE IF total_chunks > DEFAULT_MAX_CHUNKS THEN Commit(Raise(m1, << "too_many_chunks" >>))
           ELSE LET m2 == Persist([ m1 EXCEPT !.job.meta.total_chunks = total_chunks ])
                    m3 == Persist(Step(m2, "translate", "running"))
                IN  \E xelatex \in BOOLEAN : Commit(RunFiles(m3, 1, xelatex))

\* Lines 764-788, then the rest of the file loop
AfterTranslateChunks ==
    /\ Resumed("translate")
    /\ LET segments == StateSegments(loc.file, loc.tex_files[loc.file])
           applied  == ApplyTranslated(segments, TranslatableIndices(segments), fut.value, 1)
           done     == loc.translated_done + Len(ChunksOf(segments))
           m1 == [ Here EXCEPT !.job.meta.guard_fallback_chunks = @ + applied.fallback,
                               !.job.meta.translated_chunks = done,
                               !.loc.translated_done = done,
                               !.loc.file_states =
                                   Append(@, [ FileState(loc.file, applied.segments)
                                                 EXCEPT !.completed = tr.order ]) ]
           m2 == Persist(Step(m1, "translate_file", "done"))
       IN  \E xelatex \in BOOLEAN : Commit(RunFiles(m2, loc.file + 1, xelatex))

\* Lines 790-795
AfterCtexInject ==
    /\ Resumed("ctex_inject")
    /\ \E xelatex \in BOOLEAN :
         Commit(ToCompile(IF fut.value THEN Persist(Step(Here, "prepare_chinese", "done"))
                          ELSE Here,
                          xelatex))

\* Lines 815-825
AfterCtexEnsure ==
    /\ Resumed("ctex_ensure")
    /\ Commit(BeginCompile(Here, loc.attempt))

\* Lines 839-857 and 877-892
AfterCompile ==
    /\ Resumed("compile")
    /\ LET m1 == [ Here EXCEPT !.loc.compile_result = fut.value ]
       IN  IF fut.value.compile_ok THEN Commit(Await(m1, "copy_pdf"))
           ELSE IF loc.attempt >= loc.max_compile_tries THEN Commit(Raise(m1, CompileFailed(m1)))
           ELSE Commit(Await(m1, "repair"))

\* Lines 858-886
AfterRepair ==
    /\ Resumed("repair")
    /\ IF fut.value
       THEN Commit(EnterAttempt(Persist(Step(Here, "compile_fix", "running")),
                                loc.attempt + 1))
       ELSE LET m1 == Persist(Step(Here, "compile_fix", "error"))
            IN  Commit(Raise(m1, CompileFailed(m1)))

\* Lines 893-906
AfterCopyPdf ==
    /\ Resumed("copy_pdf")
    /\ Commit(Await(Step(Persist(Step(Here, "compile", "done")), "pack", "running"),
                    "build_zip"))

\* Lines 907-922
AfterBuildZip ==
    /\ Resumed("build_zip")
    /\ Commit(Await([ Step(Here, "pack", "done") EXCEPT
                        !.job.artifacts = << "translate_zh.pdf", "project.zip", "compile.log" >> ],
                    "original_pdf"))

\* Lines 923-930
AfterOriginalPdf ==
    /\ Resumed("original_pdf")
    /\ LET m1 == [ Here EXCEPT !.job.meta.original_pdf_url =
                                   IF fut.value THEN "local" ELSE "external",
                               !.job.status = "succeeded" ]
       IN  Commit(Return(Persist(Step(m1, "done", "done"))))

(***************************************************************************)
(* The job specification.                                                  *)
(***************************************************************************)
GuardIdle ==
    /\ gOriginal = << >>
    /\ gTranslated = << >>
    /\ gResult = << >>
    /\ gPc = "idle"

\* No job has been created yet.
JobIdle ==
    /\ jobs = {}
    /\ job = NoJob
    /\ cancel_requested = FALSE
    /\ disk = NoJob
    /\ payload = NoPayload
    /\ task = [ pc |-> "none", must_cancel |-> FALSE ]
    /\ fut = NoFuture
    /\ loc = NoLocals
    /\ tr = NoTranslate
    /\ progress = << >>

\* No call has returned; the data directory holds no earlier record.
ApiIdle ==
    /\ reply = NoReply
    /\ prior = NoPrior
    /\ paper = "none"

SplitIdle ==
    /\ sText = << >>
    /\ sMask = << >>
    /\ sMaxTokens = 0
    /\ sSegments = << >>
    /\ sBuilt = << >>
    /\ sPc = "idle"

NothingLoaded == [ found |-> FALSE, job_root |-> << >>, artifacts |-> FALSE ]

NoStore ==
    [ pc |-> "idle", input_text |-> "none", job_id |-> "none", canonical_id |-> "none",
      job_root |-> << >>, records |-> {}, outputs |-> {}, done |-> {},
      got |-> NothingLoaded, listed |-> {}, cached |-> NothingLoaded ]

NoPlan ==
    [ first |-> "none", bibtex |-> "none", second |-> "none", third |-> "none",
      missing |-> "none", aux |-> FALSE, keep_existing_bbl |-> FALSE, emergency |-> 0,
      pdf |-> "none", prior_pdf |-> FALSE ]

NoCompileRun ==
    [ pc |-> "idle", plan |-> NoPlan, return_codes |-> << >>, timed_out |-> FALSE,
      log_text |-> << >>, error |-> "none", pdf_exists |-> FALSE,
      has_emergency_stop |-> FALSE, compile_ok |-> FALSE, pdf_file |-> "none" ]

NoListing ==
    [ pc |-> "idle", on_disk |-> << >>, live |-> << >>, limit |-> 0,
      statuses |-> << >>, items |-> << >> ]

ToolIdle ==
    /\ cRun = NoCompileRun
    /\ hist = NoListing
    /\ store = NoStore

Init == JobIdle /\ GuardIdle /\ ApiIdle /\ SplitIdle /\ ToolIdle

Next ==
    \/ CreateJob
    \/ CancelJob
    \/ StartTask
    \/ TaskNeverStarts
    \/ TaskCancelled
    \/ TaskException
    \/ ThreadReturns
    \/ RepairRuns
    \/ AfterDownload
    \/ AfterExtractArchive
    \/ AfterNormalizeRoot
    \/ AfterDiscoverTex
    \/ AfterFindMain
    \/ AfterPaperTitle
    \/ AfterCopyTree
    \/ AfterTranslateChunks
    \/ AfterCtexInject
    \/ AfterCtexEnsure
    \/ AfterCompile
    \/ AfterRepair
    \/ AfterCopyPdf
    \/ AfterBuildZip
    \/ AfterOriginalPdf
    \/ \E i \in Workers : WorkerStart(i)
    \/ \E i \in Workers : WorkerGranted(i)
    \/ \E i \in Workers : CallFails(i)
    \/ \E i \in Workers : WorkerRetries(i)
    \/ \E i \in Workers : CallSucceeds(i)
    \/ \E i \in Workers : WorkerCancelled(i)

Spec == Init /\ [][Next]_vars

(***************************************************************************)
(* The job specification under fair scheduling: the event loop runs every  *)
(* task that is ready, the thread pool runs every submitted function, and  *)
(* every collaborator call returns or raises.  cancel_job and create_job   *)
(* are calls of the environment and carry no fairness.                     *)
(***************************************************************************)
\* A step of the job task.
TaskStep ==
    \/ StartTask
    \/ TaskNeverStarts
    \/ TaskCancelled
    \/ TaskException
    \/ AfterDownload
    \/ AfterExtractArchive
    \/ AfterNormalizeRoot
    \/ AfterDiscoverTex
    \/ AfterFindMain
    \/ AfterPaperTitle
    \/ AfterCopyTree
    \/ AfterTranslateChunks
    \/ AfterCtexInject
    \/ AfterCtexEnsure
    \/ AfterCompile
    \/ AfterRepair
    \/ AfterCopyPdf
    \/ AfterBuildZip
    \/ AfterOriginalPdf

\* A step of the function running in the thread pool.
ThreadStep == ThreadReturns \/ RepairRuns

\* A step of the worker task of chunk i.
WorkerStep(i) ==
    \/ WorkerStart(i)
    \/ WorkerGranted(i)
    \/ CallFails(i)
    \/ WorkerRetries(i)
    \/ CallSucceeds(i)
    \/ WorkerCancelled(i)

\* ENABLED <<TaskStep>>_vars: the job task was created and has not started,
\* or the await it is suspended at is over (its future is done, or the task
\* was cancelled).
TaskReady ==
    \/ task.pc = "created"
    \/ /\ task.pc \in ThreadPcs \cup {"translate"}
       /\ task.must_cancel \/ fut.state \in {"ok", "err"}

\* WF_vars(TaskStep), with ENABLED written out as TaskReady.
TaskFair == []<>(~TaskReady) \/ []<><<TaskStep>>_vars

\* ENABLED <<ThreadStep>>_vars: a function runs in the thread pool for the
\* await the job task is suspended at.
ThreadReady ==
    /\ task.pc \in ThreadPcs
    /\ ~task.must_cancel
    /\ fut.state = "pending"

\* WF_vars(ThreadStep), with ENABLED written out as ThreadReady.
ThreadFair == []<>(~ThreadReady) \/ []<><<ThreadStep>>_vars

LiveSpec ==
    /\ Spec
    /\ TaskFair
    /\ ThreadFair
    /\ \A i \in 1..DEFAULT_MAX_CHUNKS : WF_vars(WorkerStep(i))

(***************************************************************************)
(* translate_chunks on its own: a caller that stands where _run_job calls  *)
(* it (line 758) calls it with any configuration and any chunk list, the   *)
(* empty one included, and is not cancelled.                               *)
(***************************************************************************)
\* The steps _run_job has logged when it calls translate_chunks.
StepsBeforeTranslate ==
    << << "queued", "done" >>, << "start", "running" >>, << "download", "running" >>,
       << "download", "done" >>, << "extract", "running" >>, << "extract", "done" >>,
       << "prepare", "running" >>, << "prepare", "done" >>, << "translate", "running" >>,
       << "translate_file", "running" >> >>

RECURSIVE StepsLogged(_, _, _)
StepsLogged(j, log, i) ==
    IF i > Len(log) THEN j
    ELSE StepsLogged(_append_step(j, log[i][1], log[i][2]), log, i + 1)

\* The job of the caller, for a project of one file with n chunks.
JobAtTranslate(n) ==
    StepsLogged([ NoJob EXCEPT !.status = "running", !.meta.main_tex = 1,
                               !.meta.tex_files = 1, !.meta.total_chunks = n ],
                StepsBeforeTranslate, 1)

TranslateConfigs ==
    [ chinese : {FALSE}, concurrency : {1, 2}, max_compile_tries : {1},
      api_key : BOOLEAN, model : BOOLEAN ]

TranslateInit ==
    /\ GuardIdle
    /\ ApiIdle
    /\ SplitIdle
    /\ ToolIdle
    /\ jobs = {JobId}
    /\ \E n \in 0..MaxChunks :
         /\ job = JobAtTranslate(n)
         /\ loc = [ NoLocals EXCEPT !.tex_files = << n >>, !.file = 1 ]
    /\ disk = _snapshot(job)
    /\ cancel_requested = FALSE
    /\ payload \in TranslateConfigs
    /\ task = [ pc |-> "call_translate", must_cancel |-> FALSE ]
    /\ fut = NoFuture
    /\ tr = NoTranslate
    /\ progress = << >>

\* The chunk list of the call.
CallChunks == ChunksOf(StateSegments(loc.file, loc.tex_files[loc.file]))

\* translate_chunks(chunks, cfg, on_progress=_on_progress) up to its first
\* await, or to the raise or return before it.
CallTranslate ==
    /\ task.pc = "call_translate"
    /\ LET entry == TranslateEntry(payload, CallChunks)
       IN  CASE entry \in TranslateRefusals ->
                  /\ fut' = [ state |-> "err", value |-> << entry >> ]
                  /\ task' = [ task EXCEPT !.pc = "raised" ]
                  /\ UNCHANGED << tr, progress >>
             [] entry = "return_empty" ->
                  /\ fut' = [ state |-> "ok", value |-> << >> ]
                  /\ task' = [ task EXCEPT !.pc = "returned" ]
                  /\ UNCHANGED << tr, progress >>
             [] OTHER ->
                  /\ fut' = Pending
                  /\ task' = [ task EXCEPT !.pc = "translate" ]
                  /\ tr' = NewTranslate(CallChunks, ResolvedConcurrency(payload),
                                        loc.translated_done)
                  /\ progress' = << >>
    /\ UNCHANGED << jobs, job, cancel_requested, disk, payload, loc,
                    guardVars, apiVars, splitVars, toolVars >>

\* gather() is done: the caller is resumed with the list or with the error.
TranslateEnds ==
    /\ task.pc = "translate"
    /\ fut.state \in {"ok", "err"}
    /\ task' = [ task EXCEPT !.pc = IF fut.state = "ok" THEN "returned" ELSE "raised" ]
    /\ UNCHANGED << jobs, job, cancel_requested, disk, payload, fut, loc, tr, progress,
                    guardVars, apiVars, splitVars, toolVars >>

TranslateNext ==
    \/ CallTranslate
    \/ TranslateEnds
    \/ \E i \in Workers : WorkerStart(i)
    \/ \E i \in Workers : WorkerGranted(i)
    \/ \E i \in Workers : CallFails(i)
    \/ \E i \in Workers : WorkerRetries(i)
    \/ \E i \in Workers : CallSucceeds(i)

TranslateSpec == TranslateInit /\ [][TranslateNext]_vars

(***************************************************************************)
(* guard_translated_segment on its own: the arguments are drawn from the   *)
(* texts over GuardAlphabet, then the function is applied.                 *)
(***************************************************************************)
GuardAlphabet == { "{", "}", "\\item", "\\begin", "a", " " }

GuardInit ==
    /\ JobIdle
    /\ ApiIdle
    /\ SplitIdle
    /\ ToolIdle
    /\ gOriginal \in SeqsUpTo(GuardAlphabet, MaxOrigLen)
    /\ gTranslated \in SeqsUpTo(GuardAlphabet, MaxTransLen)
    /\ gResult = << >>
    /\ gPc = "input"

ApplyGuard ==
    /\ gPc = "input"
    /\ gResult' = guard_translated_segment(gOriginal, gTranslated)
    /\ gPc' = "returned"
    /\ UNCHANGED << jobVars, gOriginal, gTranslated, apiVars, splitVars, toolVars >>

GuardNext == ApplyGuard

GuardSpec == GuardInit /\ [][GuardNext]_vars

(***************************************************************************)
(* create_job, get_job and cancel_job as calls that return: the reply of   *)
(* a call is held until it is delivered, and the data directory may hold   *)
(* the record of a job of an earlier run.                                  *)
(***************************************************************************)
\* id_parser.py: normalize_arxiv_id on a word of the input ("none": no id).
normalize_arxiv_id(word) ==
    CASE word = "2401.00001"   -> [ paper_id |-> "2401.00001", canonical_id |-> "2401.00001" ]
      [] word = "2401.00001v2" -> [ paper_id |-> "2401.00001v2", canonical_id |-> "2401.00001" ]
      [] word = "2401.00002"   -> [ paper_id |-> "2401.00002", canonical_id |-> "2401.00002" ]
      [] word = "hep-th/9901001" ->
           [ paper_id |-> "hep-th/9901001", canonical_id |-> "hep-th/9901001" ]
      [] word = "HEP-TH/9901001v2" ->
           [ paper_id |-> "hep-th/9901001v2", canonical_id |-> "hep-th/9901001" ]
      [] word = "arxiv:math/0211159" ->
           [ paper_id |-> "math/0211159", canonical_id |-> "math/0211159" ]
      [] OTHER                 -> [ paper_id |-> "none", canonical_id |-> "none" ]

\* downloader.py: resolve_arxiv_input; the first id found in the text counts.
resolve_arxiv_input(raw) ==
    LET text == Strip(raw)
        ids  == { i \in 1..Len(text) : normalize_arxiv_id(text[i]).paper_id # "none" }
    IN  IF text = << >>
        THEN [ ok |-> FALSE, error |-> "empty", paper_id |-> "none", canonical_id |-> "none" ]
        ELSE IF ids # {}
        THEN [ ok |-> TRUE, error |-> "none",
               paper_id |-> normalize_arxiv_id(text[Min(ids)]).paper_id,
               canonical_id |-> normalize_arxiv_id(text[Min(ids)]).canonical_id ]
        ELSE [ ok |-> FALSE, error |-> "unresolved", paper_id |-> "none",
               canonical_id |-> "none" ]

\* The requests create_job is called with (input_text, allow_cache): a blank
\* text, a text without an id, an id with a version after a blank, with and
\* without the cache, and the id of another paper.
CreateRequests ==
    { << << " " >>, TRUE >>, << << "word" >>, TRUE >>,
      << << " ", "2401.00001v2" >>, TRUE >>, << << " ", "2401.00001v2" >>, FALSE >>,
      << << "word", "2401.00002" >>, TRUE >> }

\* The ids get_job and cancel_job are called with.
PriorJobId == "job-0"

JobIds == { PriorJobId, JobId, "job-9" }

\* The paper of the earlier record.
PriorPaper == "2401.00001"

OutputArtifacts == << "translate_zh.pdf", "project.zip", "compile.log" >>

\* The record of a job whose process ended while the job was at its download:
\* the last _persist_job wrote status running (service.py:646-647).
RunningRecord ==
    [ record |-> _append_step(_append_step([ create_job_record EXCEPT !.status = "running" ],
                                           "start", "running"),
                              "download", "running"),
      files |-> << >> ]

\* What an earlier run may have left: nothing, a succeeded job with its
\* record and its output files, a job whose compile failed, with the
\* compile.log that compile_latex_project wrote (compiler.py:227) and a
\* record without artifacts, a job that was running when the process ended.
PriorRecords ==
    { NoPrior, RunningRecord,
      [ record |-> [ _append_step(_append_step([ NoJob EXCEPT !.status = "succeeded" ],
                                               "pack", "done"), "done", "done")
                       EXCEPT !.artifacts = OutputArtifacts ],
        files |-> OutputArtifacts ],
      [ record |-> _append_step([ NoJob EXCEPT !.status = "failed",
                                               !.error = << "compile_failed", "no_detail" >> ],
                                "error", "error"),
        files |-> << "compile.log" >> ] }

\* _build_output_artifacts(paths) or list(snapshot.get("artifacts") or []):
\* the files of the output directory that exist, in the order of line 193.
DiskArtifacts(c) == IF c.files # << >> THEN c.files ELSE c.record.artifacts

\* The job.json files under the directory of canonical_id, newest first.
CacheCandidates(canonical_id) ==
    (IF paper = canonical_id /\ disk.status # "absent"
     THEN << [ job_id |-> JobId, record |-> disk, files |-> disk.artifacts ] >>
     ELSE << >>)
    \o (IF PriorPaper = canonical_id /\ prior.record.status # "absent"
        THEN << [ job_id |-> PriorJobId, record |-> prior.record, files |-> prior.files ] >>
        ELSE << >>)

NoCached == [ found |-> FALSE, job_id |-> "none", snapshot |-> NoJob ]

\* A lookup that takes the record of a job of any status.
CacheableStatusAny(status) == TRUE

\* snapshot.get("status") != "succeeded": continue
CacheableStatus(status) == status = "succeeded"

RECURSIVE FirstCached(_, _)
FirstCached(candidates, i) ==
    IF i > Len(candidates) THEN NoCached
    ELSE IF ~CacheableStatus(candidates[i].record.status)
    THEN FirstCached(candidates, i + 1)
    ELSE IF DiskArtifacts(candidates[i]) = << >> THEN FirstCached(candidates, i + 1)
    ELSE [ found |-> TRUE, job_id |-> candidates[i].job_id,
           snapshot |-> [ candidates[i].record EXCEPT
                            !.artifacts = DiskArtifacts(candidates[i]) ] ]

_find_cached_success_snapshot(canonical_id) ==
    FirstCached(CacheCandidates(canonical_id), 1)

\* A lookup that finds no record.
LoadNothing(job_id) == NoCached

\* The job.json with this job_id, among all the records of the data directory.
_load_job_snapshot_from_disk(job_id) ==
    IF job_id = JobId /\ disk.status # "absent"
    THEN [ found |-> TRUE, job_id |-> JobId, snapshot |-> disk ]
    ELSE IF job_id = PriorJobId /\ prior.record.status # "absent"
    THEN [ found |-> TRUE, job_id |-> PriorJobId,
           snapshot |-> [ prior.record EXCEPT !.artifacts = DiskArtifacts(prior) ] ]
    ELSE NoCached

\* The rest of the payload of the requests: an api key, one chunk at a
\* time, one compile attempt.
ApiPayload ==
    [ chinese |-> FALSE, concurrency |-> 1, max_compile_tries |-> 1, api_key |-> TRUE,
      model |-> TRUE ]

\* A create_job that takes the text as it is.
InvalidInputIgnored(r) == FALSE

\* Lines 437-441: ValueError of create_job or of resolve_arxiv_input.
InvalidInput(r) == ~r.ok

\* create_job(payload): lines 436-489.  The model holds one job, so the
\* branch that creates a job is taken while the registry is empty.
create_job ==
    /\ reply = NoReply
    /\ \E request \in CreateRequests :
         LET input_text  == request[1]
             allow_cache == request[2]
             r      == resolve_arxiv_input(input_text)
             cached == IF allow_cache THEN _find_cached_success_snapshot(r.canonical_id)
                       ELSE NoCached
             call   == [ NoReply EXCEPT !.op = "create", !.input_text = input_text,
                                        !.allow_cache = allow_cache ]
         IN  IF InvalidInput(r)
             THEN /\ reply' = [ call EXCEPT !.outcome = "invalid_input" ]
                  /\ UNCHANGED << jobVars, prior, paper >>
             ELSE IF cached.found
             THEN /\ reply' = [ call EXCEPT !.outcome = "ok", !.job_id = cached.job_id,
                                            !.snapshot = cached.snapshot,
                                            !.cache_hit = TRUE ]
                  /\ UNCHANGED << jobVars, prior, paper >>
             ELSE /\ jobs = {}
                  /\ payload' = ApiPayload
                  /\ job' = create_job_record
                  /\ disk' = _snapshot(job')
                  /\ jobs' = {JobId}
                  /\ task' = [ pc |-> "created", must_cancel |-> FALSE ]
                  /\ paper' = r.canonical_id
                  /\ reply' = [ call EXCEPT !.outcome = "ok", !.job_id = JobId,
                                            !.snapshot = _snapshot(job') ]
                  /\ UNCHANGED << cancel_requested, fut, loc, tr, progress, prior >>
    /\ UNCHANGED << guardVars, splitVars, toolVars >>

\* get_job(job_id): lines 492-501.
get_job ==
    /\ reply = NoReply
    /\ \E job_id \in JobIds :
         LET snap == _load_job_snapshot_from_disk(job_id)
             call == [ NoReply EXCEPT !.op = "get", !.id = job_id ]
         IN  reply' = IF job_id \in jobs
                      THEN [ call EXCEPT !.outcome = "ok", !.job_id = job_id,
                                         !.snapshot = _snapshot(job) ]
                      ELSE IF snap.found
                      THEN [ call EXCEPT !.outcome = "ok", !.job_id = snap.job_id,
                                         !.snapshot = snap.snapshot ]
                      ELSE [ call EXCEPT !.outcome = "not_found" ]
    /\ UNCHANGED << jobVars, guardVars, splitVars, toolVars, prior, paper >>

\* cancel_job(job_id): lines 504-516; _get_job raises KeyError for an id
\* that is not in the registry.
cancel_job ==
    /\ reply = NoReply
    /\ \E job_id \in JobIds :
         LET call == [ NoReply EXCEPT !.op = "cancel", !.id = job_id ]
         IN  IF job_id \in jobs
             THEN /\ CancelEffect
                  /\ reply' = [ call EXCEPT !.outcome = "ok", !.job_id = job_id,
                                            !.snapshot = _snapshot(job') ]
             ELSE /\ reply' = [ call EXCEPT !.outcome = "not_found" ]
                  /\ UNCHANGED << jobVars, guardVars, splitVars, toolVars >>
    /\ UNCHANGED << prior, paper >>

\* The caller has the reply.
ReplyDelivered ==
    /\ reply # NoReply
    /\ reply' = NoReply
    /\ UNCHANGED << jobVars, guardVars, splitVars, toolVars, prior, paper >>

\* The job task, the threads and the workers run between the calls.
JobRuns ==
    /\ reply = NoReply
    /\ \/ TaskStep
       \/ ThreadStep
       \/ \E i \in Workers : WorkerStep(i)

ApiInit ==
    /\ JobIdle
    /\ GuardIdle
    /\ SplitIdle
    /\ ToolIdle
    /\ reply = NoReply
    /\ prior \in PriorRecords
    /\ paper = "none"

ApiNext ==
    \/ create_job
    \/ get_job
    \/ cancel_job
    \/ ReplyDelivered
    \/ JobRuns

ApiSpec == ApiInit /\ [][ApiNext]_vars

\* The event loop runs the job task, the threads and the workers that are
\* ready, whatever calls arrive, and a call that returned reaches its caller;
\* no caller is bound to call again.
ApiLiveSpec ==
    /\ ApiSpec
    /\ WF_vars(ReplyDelivered)
    /\ TaskFair
    /\ ThreadFair
    /\ \A i \in 1..DEFAULT_MAX_CHUNKS : WF_vars(WorkerStep(i))

(***************************************************************************)
(* splitter.py: segment_latex_text and build_translation_segments on their *)
(* own.  A text is a sequence of characters; the mask is any list of one   *)
(* boolean per character; tiktoken is not installed.                       *)
(***************************************************************************)
\* estimate_token_count without the encoder: max(1, len(text) // 4)
estimate_token_count(text) == Max2(1, Len(text) \div 4)

SHORT_SEGMENT_MIN_CHARS == 42

\* The elements of a set of numbers in increasing order.
RECURSIVE Sorted(_)
Sorted(S) == IF S = {} THEN << >> ELSE << Min(S) >> \o Sorted(S \ {Min(S)})

\* The while loop of segment_latex_text: the maximal runs of equal mask.
RawChunks(text, mask) ==
    LET n      == Len(text)
        starts == Sorted({ i \in 1..n : i = 1 \/ mask[i] # mask[i - 1] })
    IN  [ k \in 1..Len(starts) |->
            [ text |-> SubSeq(text, starts[k],
                              IF k < Len(starts) THEN starts[k + 1] - 1 ELSE n),
              flag |-> mask[starts[k]] ] ]

\* _post_process_chunks, first loop: a short translatable chunk is kept.
Adjusted(chunk) ==
    [ chunk EXCEPT !.flag = @ /\ Len(Strip(chunk.text)) >= SHORT_SEGMENT_MIN_CHARS ]

\* _post_process_chunks, second loop: neighbours with the same flag are merged.
RECURSIVE MergeFrom(_, _, _)
MergeFrom(chunks, i, merged) ==
    IF i > Len(chunks) THEN merged
    ELSE LET c == Adjusted(chunks[i])
         IN  IF merged # << >> /\ merged[Len(merged)].flag = c.flag
             THEN MergeFrom(chunks, i + 1,
                            [ merged EXCEPT ![Len(merged)].text = @ \o c.text ])
             ELSE MergeFrom(chunks, i + 1, Append(merged, c))

_post_process_chunks(chunks) == MergeFrom(chunks, 1, << >>)

\* The segments of the chunks from index i on, the first at current_line.
RECURSIVE SegmentsFrom(_, _, _)
SegmentsFrom(chunks, i, current_line) ==
    IF i > Len(chunks) THEN << >>
    ELSE LET end_line == current_line + Count(chunks[i].text, "\n")
         IN  << [ text |-> chunks[i].text, translatable |-> chunks[i].flag,
                  start_line |-> current_line, end_line |-> end_line ] >>
             \o SegmentsFrom(chunks, i + 1, end_line)

segment_latex_text(text, mask) ==
    IF text = << >> THEN << >>
    ELSE SegmentsFrom(_post_process_chunks(RawChunks(text, mask)), 1, 1)

\* The separators of _pick_split_index, in its order.
separators ==
    << << "\n", "\n" >>, << "\n" >>, << ".", " " >>, << "U+3002" >>, << ";", " " >>,
       << "U+FF1B" >>, << ",", " " >>, << "U+FF0C" >> >>

\* sep is in text at the 0-based index k.
SepAt(text, sep, k) ==
    /\ k >= 0
    /\ k + Len(sep) <= Len(text)
    /\ \A d \in 1..Len(sep) : text[k + d] = sep[d]

\* str.rfind(sep, 0, end) and str.find(sep, start); -1: not found.
RFind(text, sep, end) ==
    LET found == { k \in 0..(end - Len(sep)) : SepAt(text, sep, k) }
    IN  IF found = {} THEN 0 - 1 ELSE CHOOSE k \in found : \A x \in found : x <= k

Find(text, sep, start) ==
    LET found == { k \in start..(Len(text) - Len(sep)) : SepAt(text, sep, k) }
    IN  IF found = {} THEN 0 - 1 ELSE Min(found)

Abs(x) == IF x < 0 THEN 0 - x ELSE x

\* The candidates of _pick_split_index for the separators from index i on.
RECURSIVE CandidatesFrom(_, _, _, _, _)
CandidatesFrom(text, target, min_pos, max_pos, i) ==
    IF i > Len(separators) THEN << >>
    ELSE LET sep   == separators[i]
             left  == RFind(text, sep, Min2(target + 1, Len(text)))
             right == Find(text, sep, target)
             li    == left + Len(sep)
             ri    == right + Len(sep)
         IN  (IF left # 0 - 1 /\ min_pos <= li /\ li <= max_pos THEN << li >> ELSE << >>)
             \o (IF right # 0 - 1 /\ min_pos <= ri /\ ri <= max_pos THEN << ri >> ELSE << >>)
             \o CandidatesFrom(text, target, min_pos, max_pos, i + 1)

\* min(candidates, key=lambda x: abs(x - target)): the first of the nearest.
Nearest(candidates, target) ==
    candidates[Min({ i \in 1..Len(candidates) :
                       \A k \in 1..Len(candidates) :
                         Abs(candidates[i] - target) <= Abs(candidates[k] - target) })]

\* The lengths up to MaxTextLen at which the double len * (256 / total_tokens)
\* is just below the exact quotient; with the limit 300 there is none.
RoundsDown ==
    { 1288, 1388, 1496, 1556, 1568, 1576, 1648, 1668, 1700, 1712, 1772, 1896,
      1912, 1916, 1964, 1992, 1996, 2004, 2012, 2024, 2036 }

\* int(len(text) * (max_tokens / max(total_tokens, 1))) in double arithmetic.
ScaledLen(n, max_tokens, total_tokens) ==
    ((n * max_tokens) \div Max2(total_tokens, 1))
        - (IF max_tokens = 256 /\ n \in RoundsDown THEN 1 ELSE 0)

_pick_split_index(text, max_tokens) ==
    LET total_tokens == estimate_token_count(text)
    IN  IF total_tokens <= max_tokens \/ Len(text) < 2 THEN 0 - 1
        ELSE LET target  == Min2(Max2(1, ScaledLen(Len(text), max_tokens, total_tokens)),
                                 Len(text) - 1)
                 min_pos == Max2(1, (Len(text) * 15) \div 100)
                 max_pos == Min2(Len(text) - 1, (Len(text) * 85) \div 100)
                 candidates == CandidatesFrom(text, target, min_pos, max_pos, 1)
             IN  IF candidates = << >> THEN target ELSE Nearest(candidates, target)

\* The index the text is cut at.
SplitIndex(text, max_tokens) ==
    LET picked == _pick_split_index(text, max_tokens)
        idx    == IF picked <= 0 \/ picked >= Len(text) THEN Len(text) \div 2 ELSE picked
    IN  Min2(Max2(1, idx), Len(text) - 1)

\* A right part that starts one character late.
RightPartLate(text, split_idx) == SubSeq(text, split_idx + 2, Len(text))

\* text[:split_idx] and text[split_idx:]
LeftPart(text, split_idx) == SubSeq(text, 1, split_idx)

RightPart(text, split_idx) == SubSeq(text, split_idx + 1, Len(text))

RECURSIVE _split_text_to_token_limit(_, _)
_split_text_to_token_limit(text, max_tokens) ==
    IF text = << >> THEN << >>
    ELSE IF estimate_token_count(text) <= max_tokens THEN << text >>
    ELSE LET split_idx == SplitIndex(text, max_tokens)
             left      == LeftPart(text, split_idx)
             right     == RightPart(text, split_idx)
         IN  IF left = << >> \/ right = << >> THEN << text >>
             ELSE _split_text_to_token_limit(left, max_tokens)
                  \o _split_text_to_token_limit(right, max_tokens)

\* The segments of the chunks of one split segment.
RECURSIVE ChunkSegments(_, _, _)
ChunkSegments(chunks, i, line_cursor) ==
    IF i > Len(chunks) THEN << >>
    ELSE LET line_inc == Count(chunks[i], "\n")
         IN  << [ text |-> chunks[i], translatable |-> TRUE,
                  start_line |-> line_cursor, end_line |-> line_cursor + line_inc ] >>
             \o ChunkSegments(chunks, i + 1, line_cursor + line_inc)

RECURSIVE SplitFrom(_, _, _)
SplitFrom(segments, i, token_limit) ==
    IF i > Len(segments) THEN << >>
    ELSE (IF ~segments[i].translatable
             \/ estimate_token_count(segments[i].text) <= token_limit
          THEN << segments[i] >>
          ELSE ChunkSegments(_split_text_to_token_limit(segments[i].text, token_limit),
                             1, segments[i].start_line))
         \o SplitFrom(segments, i + 1, token_limit)

\* A floor of 100000 tokens, which no text reaches.
SplitWithWideLimit(segments, max_tokens) ==
    SplitFrom(segments, 1, Max2(100000, max_tokens))

split_translatable_segments_by_token_limit(segments, max_tokens) ==
    SplitFrom(segments, 1, Max2(256, max_tokens))

build_translation_segments(text, mask, max_tokens) ==
    split_translatable_segments_by_token_limit(segment_latex_text(text, mask), max_tokens)

\* The longest text handed to the splitter.
MaxTextLen == 2100

\* The first n characters of the repetition of a unit.
Rep(unit, n) == [ i \in 1..n |-> unit[((i - 1) % Len(unit)) + 1] ]

\* Texts without a separator, with lines, with sentences, with paragraphs
\* and commas; short, below and above the token limit.
SplitTexts ==
    { Rep(unit, n) :
        unit \in { << "a" >>,
                   << "a", "a", "a", "a", "a", "a", "\n" >>,
                   << "a", "a", "a", "a", "a", "a", "a", "a", "a", ".", " " >>,
                   << "a", ",", " ", "a", "a", "a", "a", "a", "a", "a", "\n", "\n" >> },
        n \in { 0, 1, 50, 1030, 1500, MaxTextLen } }

\* Masks of n booleans: the value of the first character and the places where
\* the value changes.
MaskOf(n, first, cuts) ==
    [ i \in 1..n |-> first = (Cardinality({ c \in cuts : c < i }) % 2 = 0) ]

Masks(n) ==
    { MaskOf(n, first, cuts) :
        first \in BOOLEAN, cuts \in { {}, {5}, {5, 60}, {48, 1400} } }

SplitInit ==
    /\ JobIdle
    /\ GuardIdle
    /\ ApiIdle
    /\ ToolIdle
    /\ sText \in SplitTexts
    /\ sMask \in Masks(Len(sText))
    /\ sMaxTokens \in { 1, 300 }
    /\ sSegments = << >>
    /\ sBuilt = << >>
    /\ sPc = "input"

\* segment_latex_text(text) is called.
SegmentText ==
    /\ sPc = "input"
    /\ sSegments' = segment_latex_text(sText, sMask)
    /\ sPc' = "segmented"
    /\ UNCHANGED << jobVars, guardVars, apiVars, toolVars, sText, sMask, sMaxTokens, sBuilt >>

\* build_translation_segments(text, max_tokens=...) is called.
BuildSegments ==
    /\ sPc = "segmented"
    /\ sBuilt' = build_translation_segments(sText, sMask, sMaxTokens)
    /\ sPc' = "returned"
    /\ UNCHANGED << jobVars, guardVars, apiVars, toolVars, sText, sMask, sMaxTokens, sSegments >>

SplitNext == SegmentText \/ BuildSegments

SplitSpec == SplitInit /\ [][SplitNext]_vars

(***************************************************************************)
(* compiler.py: one call of compile_latex_project.  What the commands of   *)
(* the attempt do is fixed when the call starts (plan): how each of the    *)
(* three compiler passes and bibtex ends, which binary is not installed,   *)
(* whether the first pass leaves an aux file, whether a bbl with entries   *)
(* is there, which output holds an Emergency stop line, and the PDF the    *)
(* passes leave behind.                                                    *)
(***************************************************************************)
\* How subprocess.run ends for a command that was started: exit code zero,
\* another exit code, the timeout before any output was read, the timeout
\* after output was read.
CommandOutcomes == { "zero", "nonzero", "timeout_silent", "timeout_output" }

EmergencyLine == "! Emergency stop."

TimeoutCode == 124

\* _run_command (lines 102-134).  subprocess.TimeoutExpired carries the output
\* read so far as bytes on POSIX although text=True was asked for, and None
\* when nothing was read: (exc.stdout or "") + "\n[timeout]\n" is a str for
\* None and raises TypeError for bytes.
_run_command(found, outcome, emergency) ==
    LET printed == IF emergency THEN << "text", EmergencyLine >> ELSE << "text" >>
        ran(code, late, output) ==
            [ raised |-> FALSE, error |-> "none", returncode |-> code,
              timed_out |-> late, output |-> output ]
        raise(error) ==
            [ raised |-> TRUE, error |-> error, returncode |-> 0,
              timed_out |-> FALSE, output |-> << >> ]
    IN  IF ~found                         THEN raise("RuntimeError")
        ELSE IF outcome = "zero"          THEN ran(0, FALSE, printed)
        ELSE IF outcome = "nonzero"       THEN ran(1, FALSE, printed)
        ELSE IF outcome = "timeout_silent" THEN ran(TimeoutCode, TRUE, << "[timeout]" >>)
        ELSE raise("TypeError")

\* return_codes.append, timed_out = timed_out or ..., attempt_log_chunks.append
\* after a command (lines 246-248); an exception leaves the function.
AfterCommand(c, r, next) ==
    IF r.raised
    THEN [ c EXCEPT !.pc = "raised", !.error = r.error ]
    ELSE [ c EXCEPT !.pc = next,
                    !.return_codes = Append(@, r.returncode),
                    !.timed_out = @ \/ r.timed_out,
                    !.log_text = @ \o r.output ]

\* re.search(r"(?im)^!\s*Emergency stop\.", log_text)
HasEmergencyStop(log_text) == \E i \in DOMAIN log_text : log_text[i] = EmergencyLine

\* Lines 290-293.
CompileOk(pdf_exists, return_codes, has_emergency_stop) ==
    LET last_ok == Len(return_codes) > 0 /\ return_codes[Len(return_codes)] = 0
    IN  pdf_exists /\ last_ok /\ ~has_emergency_stop

CompilerFound == cRun.plan.missing # "compiler"

\* Lines 240-251: the first pass, then bibtex if the aux file exists and no
\* bbl with entries is kept.
\* A start of the attempt that leaves the PDF of an earlier attempt.
KeepPdf(pdf_file) == pdf_file

\* Lines 218-220: if pdf_path.exists(): pdf_path.unlink()
UnlinkPdf(pdf_file) == "none"

\* The PDF file once the passes are through: plan.pdf is what they wrote
\* ("none": no pass wrote a PDF).
PdfWritten(pdf_file, written) == IF written = "none" THEN pdf_file ELSE written

\* Line 290: pdf_path.exists() and pdf_path.stat().st_size > 0; the PDF of an
\* earlier attempt ("stale") is not empty.
PdfExists(pdf_file) == pdf_file \in { "full", "stale" }

FirstPass ==
    /\ cRun.pc = "first"
    /\ cRun' = AfterCommand([ cRun EXCEPT !.pdf_file = UnlinkPdf(@) ],
                            _run_command(CompilerFound, cRun.plan.first,
                                               cRun.plan.emergency = 1),
                            IF cRun.plan.aux /\ ~cRun.plan.keep_existing_bbl
                            THEN "bibtex" ELSE "second")
    /\ UNCHANGED << jobVars, guardVars, apiVars, splitVars, hist, store >>

\* Lines 252-260.
Bibtex ==
    /\ cRun.pc = "bibtex"
    /\ cRun' = AfterCommand(cRun, _run_command(cRun.plan.missing # "bibtex",
                                               cRun.plan.bibtex, cRun.plan.emergency = 2),
                            "second")
    /\ UNCHANGED << jobVars, guardVars, apiVars, splitVars, hist, store >>

\* Lines 262-270.
SecondPass ==
    /\ cRun.pc = "second"
    /\ cRun' = AfterCommand(cRun, _run_command(CompilerFound, cRun.plan.second,
                                               cRun.plan.emergency = 3),
                            "third")
    /\ UNCHANGED << jobVars, guardVars, apiVars, splitVars, hist, store >>

\* Lines 272-304: the third pass and the result.
ThirdPass ==
    /\ cRun.pc = "third"
    /\ LET c == AfterCommand(cRun, _run_command(CompilerFound, cRun.plan.third,
                                                cRun.plan.emergency = 4),
                             "returned")
           pdf_file == PdfWritten(cRun.pdf_file, cRun.plan.pdf)
           pdf_exists == PdfExists(pdf_file)
           has_emergency_stop == HasEmergencyStop(c.log_text)
       IN  cRun' = IF c.pc = "raised" THEN c
                   ELSE [ c EXCEPT !.pdf_file = pdf_file,
                                   !.pdf_exists = pdf_exists,
                                   !.has_emergency_stop = has_emergency_stop,
                                   !.compile_ok = CompileOk(pdf_exists, c.return_codes,
                                                            has_emergency_stop) ]
    /\ UNCHANGED << jobVars, guardVars, apiVars, splitVars, hist, store >>

\* What the commands of one attempt may do.  A missing compiler is missing in
\* every pass.
Plans ==
    { plan \in [ first : CommandOutcomes, bibtex : CommandOutcomes,
                 second : CommandOutcomes, third : CommandOutcomes,
                 missing : { "none", "compiler", "bibtex" },
                 aux : BOOLEAN, keep_existing_bbl : BOOLEAN,
                 emergency : 0..4, pdf : { "none", "empty", "full" },
                 prior_pdf : BOOLEAN ] :
        /\ plan.missing = "compiler" =>
              plan.first = "zero" /\ plan.second = "zero" /\ plan.third = "zero"
        /\ ~(plan.aux /\ ~plan.keep_existing_bbl) => plan.bibtex = "zero" }

CompileInit ==
    /\ JobIdle
    /\ GuardIdle
    /\ ApiIdle
    /\ SplitIdle
    /\ hist = NoListing
    /\ store = NoStore
    /\ \E plan \in Plans :
         cRun = [ NoCompileRun EXCEPT !.pc = "first", !.plan = plan,
                                      !.pdf_file = IF plan.prior_pdf THEN "stale" ELSE "none" ]

CompileNext == FirstPass \/ Bibtex \/ SecondPass \/ ThirdPass

CompileSpec == CompileInit /\ [][CompileNext]_vars

(***************************************************************************)
(* service.py: one call of list_jobs.  A record is what a row is built     *)
(* from: job_id, status, updated_at, and whether artifacts are found       *)
(* (files of the output directory, else the artifacts of the snapshot).    *)
(* updated_at is _now_iso(), a UTC timestamp whose string order is its     *)
(* order in time; the model holds it as a number.  job ids are numbers.    *)
(* list_jobs holds no await that suspends it, so the job.json of a job in  *)
(* the registry is the last snapshot _persist_job wrote: same status,      *)
(* updated_at not later than in memory (lines 901-917 append steps without *)
(* persisting).                                                            *)
(***************************************************************************)
MaxJobs == 3

MaxTime == 2

MaxItems == 200

\* str(s or "").strip().lower() on the status words list_jobs is called with.
NormalStatus(s) ==
    CASE s = " Succeeded " -> "succeeded"
      [] s = "RUNNING"     -> "running"
      [] s = " "           -> ""
      [] OTHER             -> s

\* Lines 519-527.
_normalize_status_set(statuses) ==
    LET out == { NormalStatus(statuses[i]) : i \in DOMAIN statuses } \ { "" }
    IN  IF Len(statuses) = 0 \/ out = {} THEN { "succeeded" } ELSE out

\* _make_history_row_from_snapshot returns None for a succeeded snapshot
\* without artifacts (lines 560-561).
HasRow(snap) == ~(~snap.artifacts /\ snap.status = "succeeded")

\* rows_by_id: a dict keeps its keys in the order they were inserted.
RowIndex(rows, job_id) ==
    LET found == { i \in DOMAIN rows : rows[i].job_id = job_id }
    IN  IF found = {} THEN 0 ELSE Min(found)

\* rows_by_id[row["job_id"]] = row
PutRow(rows, row) ==
    IF RowIndex(rows, row.job_id) = 0 THEN Append(rows, row)
    ELSE [ rows EXCEPT ![RowIndex(rows, row.job_id)] = row ]

\* Lines 600-611: the rows of the records lo..hi on disk, in their order
\* (the loop is unrolled by halves, the first half computed first).
RECURSIVE DiskRows(_, _, _, _, _)
DiskRows(on_disk, lo, hi, allowed_status, rows) ==
    IF lo > hi THEN rows
    ELSE IF lo < hi
    THEN LET half == DiskRows(on_disk, lo, (lo + hi) \div 2, allowed_status, rows)
         IN  IF Len(half) >= 0
             THEN DiskRows(on_disk, (lo + hi) \div 2 + 1, hi, allowed_status, half)
             ELSE half
    ELSE IF on_disk[lo].status \notin allowed_status \/ ~HasRow(on_disk[lo]) THEN rows
    ELSE PutRow(rows, on_disk[lo])

\* A merge that leaves the row of the record on disk where there is one.
MergeKeepsDisk(rows, row) ==
    IF RowIndex(rows, row.job_id) = 0 THEN PutRow(rows, row) ELSE rows

\* Lines 625-627.
MergeLive(rows, row) ==
    LET prev == RowIndex(rows, row.job_id)
    IN  IF prev = 0 \/ row.updated_at >= rows[prev].updated_at
        THEN PutRow(rows, row) ELSE rows

\* Lines 616-627: the rows of the jobs lo..hi of the registry.
RECURSIVE LiveRows(_, _, _, _, _)
LiveRows(live, lo, hi, allowed_status, rows) ==
    IF lo > hi THEN rows
    ELSE IF lo < hi
    THEN LET half == LiveRows(live, lo, (lo + hi) \div 2, allowed_status, rows)
         IN  IF Len(half) >= 0
             THEN LiveRows(live, (lo + hi) \div 2 + 1, hi, allowed_status, half)
             ELSE half
    ELSE IF live[lo].status \notin allowed_status \/ ~HasRow(live[lo]) THEN rows
    ELSE MergeLive(rows, live[lo])

\* Where a row goes in a list sorted by updated_at, newest first: behind the
\* rows that are not older.
InsertRow(sorted, row) ==
    LET before == { k \in DOMAIN sorted : sorted[k].updated_at >= row.updated_at }
        n == Cardinality(before)
    IN  SubSeq(sorted, 1, n) \o << row >> \o SubSeq(sorted, n + 1, Len(sorted))

\* rows.sort(key=updated_at, reverse=True): stable, rows with equal keys keep
\* their order.
RECURSIVE SortRows(_, _, _, _)
SortRows(rows, lo, hi, sorted) ==
    IF lo > hi THEN sorted
    ELSE IF lo < hi
    THEN LET half == SortRows(rows, lo, (lo + hi) \div 2, sorted)
         IN  IF Len(half) >= 0
             THEN SortRows(rows, (lo + hi) \div 2 + 1, hi, half)
             ELSE half
    ELSE InsertRow(sorted, rows[lo])

\* max_items = min(max(1, int(limit)), 200); rows[:max_items]
RowsUpTo(rows, limit) == SubSeq(rows, 1, Min2(Min2(Max2(1, limit), MaxItems), Len(rows)))

\* list_jobs(limit, statuses): lines 592-631.
list_jobs ==
    /\ hist.pc = "input"
    /\ \E limit \in { 0, 1, 2, 300 },
          statuses \in { << >>, << " " >>, << "RUNNING" >>, << " Succeeded ", "running" >> } :
         LET allowed_status == _normalize_status_set(statuses)
             rows_by_id == LiveRows(hist.live, 1, Len(hist.live), allowed_status,
                                    DiskRows(hist.on_disk, 1, Len(hist.on_disk),
                                             allowed_status, << >>))
         IN  hist' = [ hist EXCEPT !.pc = "returned", !.limit = limit,
                                   !.statuses = statuses,
                                   !.items = RowsUpTo(SortRows(rows_by_id, 1, Len(rows_by_id), << >>), limit) ]
    /\ UNCHANGED << jobVars, guardVars, apiVars, splitVars, cRun, store >>

\* What a job looks like to list_jobs: no record (time 0), or a record of a
\* status, written at a time, with or without artifacts, and the job in the
\* registry (live 0: not there) with an updated_at that is not earlier.
JobLooks ==
    { look \in [ status : { "succeeded", "running" }, artifacts : BOOLEAN,
                 time : 0..MaxTime, live : 0..MaxTime ] :
        /\ look.time = 0 => look.live = 0 /\ look.status = "running" /\ look.artifacts
        /\ look.live > 0 => look.live >= look.time
        /\ look.status = "running" => look.artifacts }

RECURSIVE RecordsOf(_, _, _)
RecordsOf(looks, ids, live) ==
    IF ids = << >> THEN << >>
    ELSE LET id   == ids[1]
             look == looks[id]
             t    == IF live THEN look.live ELSE look.time
         IN  (IF t = 0 THEN << >>
              ELSE << [ job_id |-> id, status |-> look.status, updated_at |-> t,
                        artifacts |-> look.artifacts ] >>)
             \o RecordsOf(looks, Tail(ids), live)

\* More records than list_jobs ever returns, each newer than the one before.
ManyRecords ==
    [ i \in 1..(MaxItems + 1) |->
        [ job_id |-> i, status |-> "succeeded", updated_at |-> i, artifacts |-> TRUE ] ]

\* glob() yields the records in any order: here by job id, up or down.
ListInit ==
    /\ JobIdle
    /\ GuardIdle
    /\ ApiIdle
    /\ SplitIdle
    /\ cRun = NoCompileRun
    /\ store = NoStore
    /\ \/ \E looks \in [ 1..MaxJobs -> JobLooks ],
             order \in { [ i \in 1..MaxJobs |-> i ], [ i \in 1..MaxJobs |-> MaxJobs + 1 - i ] } :
            hist = [ NoListing EXCEPT !.pc = "input",
                                      !.on_disk = RecordsOf(looks, order, FALSE),
                                      !.live = RecordsOf(looks, [ i \in 1..MaxJobs |-> i ], TRUE) ]
       \/ hist = [ NoListing EXCEPT !.pc = "input", !.on_disk = ManyRecords ]

ListNext == list_jobs

ListSpec == ListInit /\ [][ListNext]_vars

(***************************************************************************)
(* storage.py and service.py: where the record of a job is written and how *)
(* it is found again.  A path is the list of its components below the data *)
(* directory.  The process ends after create_job wrote the record, at any  *)
(* status the job reached, and the next process starts with an empty       *)
(* registry.                                                               *)
(***************************************************************************)
\* The texts create_job is called with: one id each.
IdWords ==
    { "2401.00001", "2401.00001v2", "2401.00002", "hep-th/9901001",
      "HEP-TH/9901001v2", "arxiv:math/0211159" }

StoreJobIds == { "job-1", "job-2" }

\* Path(base_dir) / arxiv_id: a "/" in the id separates two components.
PathParts(arxiv_id) ==
    CASE arxiv_id = "hep-th/9901001" -> << "hep-th", "9901001" >>
      [] arxiv_id = "math/0211159"   -> << "math", "0211159" >>
      [] OTHER                       -> << arxiv_id >>

\* storage.py: build_job_paths, below base_dir.
build_job_paths(arxiv_id, job_id) ==
    LET job_root == PathParts(arxiv_id) \o << job_id >>
    IN  [ job_root   |-> job_root,
          output_dir |-> job_root \o << "output" >>,
          job_json   |-> job_root \o << "job.json" >> ]

\* service.py: _job_paths_from_job_json; Path.name is the last component.
_job_paths_from_job_json(job_json_path) ==
    LET job_root     == SubSeq(job_json_path, 1, Len(job_json_path) - 1)
        canonical_id == job_root[Len(job_root) - 1]
        job_id       == job_root[Len(job_root)]
    IN  build_job_paths(canonical_id, job_id)

\* base_dir.glob("*/*/job.json") over the records: a star is one component.
GlobJobJson(records) ==
    { r \in records : Len(r.path) = 3 /\ r.path[3] = "job.json" }

\* (base_dir / canonical_id).glob("*/job.json")
GlobJobJsonOf(records, canonical_id) ==
    LET dir == PathParts(canonical_id)
    IN  { r \in records :
            /\ Len(r.path) = Len(dir) + 2
            /\ SubSeq(r.path, 1, Len(dir)) = dir
            /\ r.path[Len(r.path)] = "job.json" }

\* What a lookup makes of a record it found: the job paths it derives from
\* the place of the job.json, and whether _build_output_artifacts finds the
\* files of the job there.
Loaded(s, r) ==
    [ found     |-> TRUE,
      job_root  |-> _job_paths_from_job_json(r.path).job_root,
      artifacts |-> _job_paths_from_job_json(r.path).output_dir \in s.outputs ]

\* The record of a job of another paper that an earlier run left.
OtherRecord ==
    [ path |-> << "2401.00009", "job-0", "job.json" >>, job_id |-> "job-0",
      status |-> "succeeded" ]

StoreInit ==
    /\ JobIdle
    /\ GuardIdle
    /\ ApiIdle
    /\ SplitIdle
    /\ cRun = NoCompileRun
    /\ hist = NoListing
    /\ \E word \in IdWords, job_id \in StoreJobIds, others \in SUBSET { OtherRecord } :
         store = [ NoStore EXCEPT !.pc = "input", !.input_text = word,
                                  !.job_id = job_id, !.records = others ]

\* create_job, lines 436-483: the paths of the job and its first job.json.
CreateJobWritesRecord ==
    /\ store.pc = "input"
    /\ LET r     == normalize_arxiv_id(store.input_text)
           paths == build_job_paths(r.canonical_id, store.job_id)
       IN  store' = [ store EXCEPT
                        !.pc = "running",
                        !.canonical_id = r.canonical_id,
                        !.job_root = paths.job_root,
                        !.records = @ \cup { [ path |-> paths.job_json,
                                               job_id |-> store.job_id,
                                               status |-> "queued" ] } ]
    /\ UNCHANGED << jobVars, guardVars, apiVars, splitVars, cRun, hist >>

\* The process ends: the job.json holds the status the job had reached, the
\* output directory its files if the job was packed, and the registry of the
\* next process is empty.
ProcessRestarts ==
    /\ store.pc = "running"
    /\ \E status \in { "queued", "running", "succeeded", "failed" } :
         LET paths == build_job_paths(store.canonical_id, store.job_id)
         IN  store' = [ store EXCEPT
                          !.pc = "restarted",
                          !.records = { IF r.path = paths.job_json
                                        THEN [ r EXCEPT !.status = status ] ELSE r :
                                        r \in @ },
                          !.outputs = IF status = "succeeded"
                                      THEN { paths.output_dir } ELSE {} ]
    /\ UNCHANGED << jobVars, guardVars, apiVars, splitVars, cRun, hist >>

\* get_job(job_id) with the id not in the registry: lines 498-501 and
\* _load_job_snapshot_from_disk.
GetJobAfterRestart ==
    /\ store.pc = "restarted"
    /\ "get" \notin store.done
    /\ LET hits == { r \in GlobJobJson(store.records) : r.job_id = store.job_id }
       IN  store' = [ store EXCEPT
                        !.done = @ \cup { "get" },
                        !.got = IF hits = {} THEN NothingLoaded
                                ELSE Loaded(store, CHOOSE r \in hits : TRUE) ]
    /\ UNCHANGED << jobVars, guardVars, apiVars, splitVars, cRun, hist >>

\* list_jobs asked for every status: the job ids of the rows, lines 599-611.
ListJobsAfterRestart ==
    /\ store.pc = "restarted"
    /\ "list" \notin store.done
    /\ store' = [ store EXCEPT
                    !.done = @ \cup { "list" },
                    !.listed = { r.job_id : r \in GlobJobJson(store.records) } ]
    /\ UNCHANGED << jobVars, guardVars, apiVars, splitVars, cRun, hist >>

\* create_job for the same paper with allow_cache: the lookup of
\* _find_cached_success_snapshot, lines 262-277.
FindCachedAfterRestart ==
    /\ store.pc = "restarted"
    /\ "cache" \notin store.done
    /\ LET hits == { r \in GlobJobJsonOf(store.records, store.canonical_id) :
                       r.status = "succeeded" }
       IN  store' = [ store EXCEPT
                        !.done = @ \cup { "cache" },
                        !.cached = IF hits = {} THEN NothingLoaded
                                   ELSE Loaded(store, CHOOSE r \in hits : TRUE) ]
    /\ UNCHANGED << jobVars, guardVars, apiVars, splitVars, cRun, hist >>

StoreNext ==
    \/ CreateJobWritesRecord
    \/ ProcessRestarts
    \/ GetJobAfterRestart
    \/ ListJobsAfterRestart
    \/ FindCachedAfterRestart

StoreSpec == StoreInit /\ [][StoreNext]_vars

(***************************************************************************)
(* Properties.                                                             *)
(***************************************************************************)
StatusStep(a, b) ==
    \/ a = b
    \/ a = "absent" /\ b = "queued"
    \/ a = "queued" /\ b \in {"running", "cancelled"}
    \/ a = "running" /\ b \in TerminalStatuses

StepKeys(j, key) == { i \in DOMAIN j.steps : j.steps[i].key = key }

C2_TerminalAbsorbing ==
    [][ job.status \in TerminalStatuses => job'.status = job.status ]_vars

\* C2: the cancellation handler of the job task ran on a job cancel_job had
\* already made terminal.
C2_HandlerAfterTerminal ==
    /\ job.status = "cancelled"
    /\ Cardinality(StepKeys(job, "cancel")) = 2

\* C3: from the moment cancel_job has cancelled a job, its status is
\* cancelled, no compile_try step is appended and compile_attempts does not
\* grow.
C3_CancelWins ==
    [][ /\ cancel_requested' => job'.status = "cancelled"
        /\ cancel_requested =>
             /\ job'.meta.compile_attempts = job.meta.compile_attempts
             /\ StepKeys(job', "compile_try") = StepKeys(job, "compile_try")
      ]_vars

\* C3: a job cancelled while translate_chunks was running, its task over.
C3_CancelledMidTranslation ==
    /\ cancel_requested
    /\ tr.cancelled
    /\ task.pc = "done"
    /\ job.status = "cancelled"

\* The job task resumes from an await with the exception it raised.
ExceptionDelivered ==
    /\ task.pc \in ThreadPcs \cup {"translate"}
    /\ ~task.must_cancel
    /\ fut.state = "err"
    /\ task'.pc = "done"

\* The job task resumes and raises: no chunk to translate, or the last
\* compile attempt failed.
RaisesItself ==
    /\ ~task.must_cancel
    /\ fut.state = "ok"
    /\ task'.pc = "done"
    /\ \/ task.pc = "copy_tree" /\ SumSeq(loc.tex_files) = 0
       \/ /\ task.pc = "compile"
          /\ ~fut.value.compile_ok
          /\ loc.attempt >= loc.max_compile_tries

\* C4 (as amended): an exception other than cancellation that reaches the
\* job task (raised by a step of the task, or by an await the task resumes
\* from before any cancel_job) makes the job failed, with the message in
\* error, the traceback in meta and the record persisted; error is set only
\* on failed jobs.
C4_FailureRecorded ==
    [][ /\ ExceptionDelivered => job'.status = "failed" /\ job'.error = fut.value
        /\ RaisesItself => job'.status = "failed"
        /\ job'.status = "failed" /\ job.status # "failed" =>
             /\ job'.error # << >>
             /\ job'.meta.traceback
             /\ disk' = job'
        /\ job'.error # << >> => job'.status = "failed"
      ]_vars

\* C4 (as stated): a job one of whose steps raised an exception is not
\* cancelled (its status becomes failed).
C4_RaisedNeverCancelled == fut.state = "err" => job.status # "cancelled"

\* C4: a job failed by the exception its download raised.
C4_FailedByDownload ==
    /\ job.status = "failed"
    /\ job.error = << "raised_in", "download" >>
    /\ disk = job

\* C5: under fair scheduling, with collaborators that return or raise, every
\* job that was created reaches a terminal status.
C5_Terminates == (JobId \in jobs) ~> (job.status \in TerminalStatuses)

\* C5: a job that used all its compile attempts and then failed.
C5_AttemptsUsedUp ==
    /\ job.status = "failed"
    /\ job.meta.compile_attempts = DEFAULT_MAX_COMPILE_TRIES
    /\ Len(job.error) >= 2
    /\ job.error[1] = "compile_failed"
    /\ job.error[2] = "first_error"

\* What translate_chunks may hold at index i: a backend answer for the
\* chunk, stripped and normalized.
BackendResults(chunk) ==
    { normalize_llm_translated_chunk(Strip(c)) :
        c \in { d \in BackendContents(chunk) : Strip(d) # << >> } }

\* C6: the list translate_chunks returns is as long as chunks, and its i-th
\* element is a backend result for chunks[i], in whatever order the chunks
\* completed.
C6_ResultsInOrder ==
    task.pc = "translate" /\ fut.state = "ok" =>
        /\ Len(fut.value) = Len(tr.chunks)
        /\ \A i \in 1..Len(tr.chunks) : fut.value[i] \in BackendResults(tr.chunks[i])

\* C6: translate_chunks returned after the second chunk completed first.
C6_CompletedOutOfOrder ==
    /\ task.pc = "translate"
    /\ fut.state = "ok"
    /\ tr.order = << 2, 1 >>

\* The chunks with a backend call in progress, retries and back-off included.
InProgress == { i \in Workers : tr.wpc[i] \in {"calling", "sleeping"} }

\* C7: at most max(1, concurrency) chunks have a backend call in progress.
C7_BoundedCalls == Cardinality(InProgress) <= Max2(1, tr.concurrency)

\* C7: with concurrency 1, a chunk waits for the semaphore while the other
\* one is in its back-off.
C7_SecondChunkWaits ==
    /\ tr.concurrency = 1
    /\ \E i, k \in Workers : tr.wpc[i] = "sleeping" /\ tr.wpc[k] = "wait_sem"

\* C8: on_progress was called once per completed chunk, with done = 1, 2, ...
\* and total = the number of chunks.
C8_ProgressCounts ==
    tr.chunks # << >> =>
        /\ Len(progress) = Cardinality({ i \in Workers : tr.wpc[i] = "done" })
        /\ \A k \in 1..Len(progress) : progress[k] = << k, Len(tr.chunks) >>

\* C8: two chunks completed, the last call was on_progress(2, 2).
C8_AllReported ==
    /\ task.pc = "translate"
    /\ Len(tr.chunks) = 2
    /\ progress = << << 1, 2 >>, << 2, 2 >> >>

\* C9: a chunk gets at most 3 backend calls; a call that fails is followed
\* by another unless it was the third; a chunk that succeeded gets no more
\* calls; translate_chunks raises only the wrapped last error of a chunk
\* whose 3 calls failed, and returns only when every chunk succeeded.
C9_Retries ==
    [][ /\ \A i \in DOMAIN tr'.calls :
             /\ tr'.calls[i] <= retries
             /\ tr'.wpc[i] = "failed" => tr'.calls[i] = retries
        /\ tr'.chunks = tr.chunks =>
             \A i \in DOMAIN tr.wpc :
               /\ tr.wpc[i] = "calling" /\ tr'.wpc[i] \notin {"calling", "cancelled"} =>
                    \/ tr'.wpc[i] = "done"
                    \/ tr'.wpc[i] = "sleeping" /\ tr.calls[i] < retries
                    \/ tr'.wpc[i] = "failed" /\ tr.calls[i] = retries
               /\ tr.wpc[i] = "sleeping" /\ tr'.wpc[i] # "sleeping" =>
                    \/ tr'.wpc[i] = "cancelled"
                    \/ tr'.wpc[i] = "calling" /\ tr'.calls[i] = tr.calls[i] + 1
               /\ tr.wpc[i] = "done" =>
                    tr'.wpc[i] = "done" /\ tr'.calls[i] = tr.calls[i]
        /\ task'.pc = "translate" /\ fut'.state = "err" =>
             \E i \in DOMAIN tr'.wpc :
               /\ tr'.wpc[i] = "failed"
               /\ fut'.value = WrapError(tr'.last_err[i])
        /\ task'.pc = "translate" /\ fut'.state = "ok" =>
             \A i \in DOMAIN tr'.wpc : tr'.wpc[i] = "done"
      ]_vars

\* C9: translate_chunks failed after the third call of a chunk failed.
C9_ThirdCallFailed ==
    /\ task.pc = "translate"
    /\ fut.state = "err"
    /\ \E i \in Workers : tr.wpc[i] = "failed" /\ tr.calls[i] = retries

StructuralCommands == { "\\begin", "\\end", "\\item", "\\caption" }

\* C10: the text guard_translated_segment returns has as many \begin, \end,
\* \item and \caption as original.
C10_CountsKept ==
    gPc = "returned" =>
        \A tok \in StructuralCommands : Count(gResult, tok) = Count(gOriginal, tok)

\* Count of "{" minus count of "}" in a text.
NetBraces(s) == Count(s, "{") - Count(s, "}")

\* C11: guard_translated_segment returns original itself or a text whose net
\* brace balance equals that of original.
C11_BalanceKept ==
    gPc = "returned" =>
        \/ gResult = gOriginal
        \/ NetBraces(gResult) = NetBraces(gOriginal)

\* C11: the answer had another balance than original, the realignment made
\* the balances equal and the realigned text was returned.
C11_Realigned ==
    /\ gPc = "returned"
    /\ NetBraces(gTranslated) # NetBraces(gOriginal)
    /\ gResult # gOriginal
    /\ NetBraces(gResult) = NetBraces(gOriginal)

AllowedTries(p) ==
    IF p.max_compile_tries = 0 THEN DEFAULT_MAX_COMPILE_TRIES
    ELSE IF p.max_compile_tries < 1 THEN 1
    ELSE IF p.max_compile_tries > DEFAULT_MAX_COMPILE_TRIES THEN DEFAULT_MAX_COMPILE_TRIES
    ELSE p.max_compile_tries

\* The error of a job whose compile result r was the last one.
ReportsFirstError(error, r) ==
    /\ Len(error) >= 2
    /\ error[1] = "compile_failed"
    /\ r.first_error.found =>
          error = << "compile_failed", "first_error",
                     ErrFileName(r.first_error.file_rel), LineName[r.first_error.line] >>

\* C13: a job makes at most the allowed number of compile attempts,
\* meta.compile_attempts is the number of attempts made, no repair runs after
\* the last allowed attempt, and when the loop ends without a successful
\* attempt the job is failed with an error that reports the first error of
\* the last attempt.
C13_CompileLoop ==
    [][ /\ job'.meta.compile_attempts = Cardinality(StepKeys(job', "compile_try"))
        /\ job'.meta.compile_attempts <= AllowedTries(payload')
        /\ task'.pc = "repair" => loc'.attempt < AllowedTries(payload')
        /\ ( /\ task.pc = "compile" /\ task'.pc # "compile"
             /\ ~task.must_cancel /\ fut.state = "ok"
             /\ ~fut.value.compile_ok
             /\ job.meta.compile_attempts >= AllowedTries(payload) ) =>
               /\ job'.status = "failed"
               /\ ReportsFirstError(job'.error, fut.value)
        /\ ( /\ task.pc = "repair" /\ task'.pc # "repair"
             /\ ~task.must_cancel /\ fut.state = "ok"
             /\ ~fut.value ) =>
               /\ job'.status = "failed"
               /\ ReportsFirstError(job'.error, loc.compile_result)
        /\ ( /\ job'.status = "failed" /\ job.status # "failed"
             /\ job'.error[1] = "compile_failed" ) =>
               /\ task.pc \in {"compile", "repair"}
               /\ job'.meta.compile_attempts >= 1
      ]_vars

\* C13: a job configured with more attempts than the default made the
\* default number of attempts, with a repair in between, and failed with the
\* first error of the last attempt.
C13_AllowedAttemptsFailed ==
    /\ job.status = "failed"
    /\ payload.max_compile_tries > DEFAULT_MAX_COMPILE_TRIES
    /\ job.meta.compile_attempts = DEFAULT_MAX_COMPILE_TRIES
    /\ Cardinality(StepKeys(job, "compile_fix")) = DEFAULT_MAX_COMPILE_TRIES - 1
    /\ Len(job.error) = 4
    /\ job.error[1] = "compile_failed"

\* The translated segments of the file the first error of result r is in
\* whose lines hold the line of the error.
SegmentsAtError(file_states, r) ==
    IF ~r.first_error.found \/ r.first_error.file_rel \notin DOMAIN file_states THEN {}
    ELSE LET segments == file_states[r.first_error.file_rel].segments
         IN  { i \in DOMAIN segments :
                 /\ Translated(segments[i])
                 /\ segments[i].start_line <= r.first_error.line
                 /\ r.first_error.line <= segments[i].end_line }

SucceededOnDisk(canonical_id) ==
    (IF /\ canonical_id = PriorPaper
        /\ prior.record.status = "succeeded"
        /\ prior.files # << >>
     THEN {PriorJobId} ELSE {})
    \cup (IF /\ canonical_id = paper
             /\ disk.status = "succeeded"
             /\ disk.artifacts # << >>
          THEN {JobId} ELSE {})

HoldsNoId(text) ==
    \A i \in 1..Len(text) : normalize_arxiv_id(text[i]).paper_id = "none"

\* C16: create_job fails with the invalid-input error exactly when the text
\* is empty after trimming or holds no arXiv id, and then creates no job: the
\* registry, the records on disk and the tasks stay as they were.
C16_InvalidInput ==
    [][ reply.op = "none" /\ reply'.op = "create" =>
          /\ reply'.outcome = "invalid_input" <=>
                (Strip(reply'.input_text) = << >> \/ HoldsNoId(reply'.input_text))
          /\ reply'.outcome = "invalid_input" =>
                /\ reply'.job_id = "none"
                /\ reply'.snapshot = NoJob
                /\ UNCHANGED << jobVars, prior, paper >>
      ]_vars

\* C16: create_job refused a text without an id while a job was running.
C16_RefusedWhileRunning ==
    /\ reply.op = "create"
    /\ reply.outcome = "invalid_input"
    /\ reply.input_text = << "word" >>
    /\ jobs = {JobId}
    /\ job.status = "running"

\* The record on disk that carries a job id (NoJob: there is none).
RecordOnDisk(job_id) ==
    IF job_id = JobId THEN disk
    ELSE IF job_id = PriorJobId THEN prior.record
    ELSE NoJob

StepOrder ==
    << "queued", "start", "download", "extract", "prepare", "translate", "translate_file",
       "prepare_chinese", "compile", "compile_try", "compile_fix", "pack", "done" >>

\* The order with prepare_chinese between prepare and translate.
ChineseFirstOrder ==
    << "queued", "start", "download", "extract", "prepare", "prepare_chinese", "translate",
       "translate_file", "compile", "compile_try", "compile_fix", "pack", "done" >>

\* Steps that not every job has between two steps it has.
OptionalSteps == { "translate_file", "prepare_chinese", "compile_fix" }

\* The first occurrences of the keys of order appear in that order in the
\* step log of j, none before a key every job logs earlier.
FirstInOrder(j, order) ==
    \A b \in 1..Len(order) :
      StepKeys(j, order[b]) # {} =>
        \A a \in 1..(b - 1) :
          /\ StepKeys(j, order[a]) # {} =>
               Min(StepKeys(j, order[a])) < Min(StepKeys(j, order[b]))
          /\ order[a] \notin OptionalSteps => StepKeys(j, order[a]) # {}

\* C19 (as amended): the first occurrences of the step keys of a job appear
\* in the order queued, start, download, extract, prepare, translate,
\* translate_file, prepare_chinese, compile, compile_try, compile_fix, pack,
\* done; prepare_chinese is logged only for a Chinese target; the last step of
\* a succeeded job is done.
C19_StepOrder ==
    /\ FirstInOrder(job, StepOrder)
    /\ StepKeys(job, "prepare_chinese") # {} => payload.chinese
    /\ job.status = "succeeded" =>
         /\ job.steps # << >>
         /\ job.steps[Len(job.steps)].key = "done"
         /\ job.steps[Len(job.steps)].status = "done"

\* C19 (as stated): the same with prepare_chinese logged before translate.
C19_ChineseBeforeTranslate ==
    /\ FirstInOrder(job, ChineseFirstOrder)
    /\ job.status = "succeeded" =>
         /\ job.steps # << >>
         /\ job.steps[Len(job.steps)].key = "done"

\* C19: a succeeded job for a Chinese target whose log holds prepare_chinese
\* and a repair.
C19_SucceededWithInjection ==
    /\ job.status = "succeeded"
    /\ StepKeys(job, "prepare_chinese") # {}
    /\ StepKeys(job, "compile_fix") # {}
    /\ job.steps[Len(job.steps)].key = "done"

\* The texts of the segments, one after the other.
RECURSIVE ConcatTexts(_, _)
ConcatTexts(segments, i) ==
    IF i > Len(segments) THEN << >> ELSE segments[i].text \o ConcatTexts(segments, i + 1)

\* C20: the texts of the segments segment_latex_text returns, and of those
\* build_translation_segments returns, put one after the other are the text;
\* for the empty text both lists are empty.
C20_RoundTrip ==
    /\ sPc \in {"segmented", "returned"} =>
         /\ ConcatTexts(sSegments, 1) = sText
         /\ sText = << >> => sSegments = << >>
    /\ sPc = "returned" =>
         /\ ConcatTexts(sBuilt, 1) = sText
         /\ sText = << >> => sBuilt = << >>

\* C20: a text with protected and translatable parts, one of them cut in
\* three or more for the token limit.
C20_LongSegmentCut ==
    /\ sPc = "returned"
    /\ Len(sSegments) >= 2
    /\ Len(sBuilt) >= Len(sSegments) + 2
    /\ \E i \in DOMAIN sSegments : ~sSegments[i].translatable

\* C21: every translatable segment build_translation_segments returns is
\* estimated at no more than max(256, max_tokens) tokens, and no segment it
\* returns is empty (every cut leaves two shorter non-empty parts, so the
\* cutting ends).
C21_TokenBudget ==
    sPc = "returned" =>
        /\ \A i \in DOMAIN sBuilt :
             sBuilt[i].translatable =>
                 Max2(1, Len(sBuilt[i].text) \div 4) <= Max2(256, sMaxTokens)
        /\ \A i \in DOMAIN sBuilt : sBuilt[i].text # << >>

\* C21 as stated: no translatable segment is estimated above max_tokens.
C21_WithinMaxTokens ==
    sPc = "returned" =>
        \A i \in DOMAIN sBuilt :
            sBuilt[i].translatable => Max2(1, Len(sBuilt[i].text) \div 4) <= sMaxTokens

\* C21: a translatable segment above the limit was cut, and a part is
\* estimated above a max_tokens that is below 256.
C21_CutToTheFloor ==
    /\ sPc = "returned"
    /\ sMaxTokens < 256
    /\ Len(sBuilt) > Len(sSegments)
    /\ \E i \in DOMAIN sSegments :
         sSegments[i].translatable /\ Len(sSegments[i].text) \div 4 > 256
    /\ \E i \in DOMAIN sBuilt :
         sBuilt[i].translatable /\ Len(sBuilt[i].text) \div 4 > sMaxTokens

\* C27: every step of the model leaves the steps the job had in place and
\* only adds entries after them, and the i-th entry has the step id i.
C27_AppendOnly ==
    [][ /\ Len(job'.steps) >= Len(job.steps)
        /\ SubSeq(job'.steps, 1, Len(job.steps)) = job.steps
        /\ \A i \in DOMAIN job'.steps : job'.steps[i].step_id = i ]_vars

\* C27: a job that failed in the compile loop after a repair, with its steps.
C27_LongStepList ==
    /\ job.status = "failed"
    /\ Len(job.steps) >= 12
    /\ \E i \in DOMAIN job.steps : job.steps[i].key = "compile_fix"

\* C29: once the status of the job is terminal, no step of the model changes
\* the job (steps, error, artifacts, meta) or its record on disk.
C29_TerminalFrozen ==
    [][ job.status \in TerminalStatuses => job' = job /\ disk' = disk ]_vars

\* C30: once the job task has been resumed with the error of a chunk that
\* used up its retries, no backend call is started for another chunk of that
\* translate_chunks call and on_progress is not called again.
C30_OperationOver ==
    [][ /\ task.pc = "done"
        /\ Len(job.error) > 0
        /\ job.error[1] = "translate_chunk_failed"
        => tr'.calls = tr.calls /\ progress' = progress ]_vars

\* C28: a translate_chunks call whose configuration lacks the api key or
\* the model has raised at once, whatever the chunk list: no worker was made,
\* no backend call was issued and on_progress was not called.
C28_FailFast ==
    (~payload.api_key \/ ~payload.model) /\ task.pc # "call_translate" =>
        /\ task.pc = "raised"
        /\ fut.state = "err"
        /\ fut.value \in { << "missing_api_key" >>, << "missing_model" >> }
        /\ tr = NoTranslate
        /\ progress = << >>

\* C28: the call with the empty chunk list and no model name has raised.
C28_EmptyListRefused ==
    /\ task.pc = "raised"
    /\ loc.tex_files = << 0 >>
    /\ payload.api_key
    /\ ~payload.model

\* The job has the step key among its steps.
HasStep(key) == \E i \in DOMAIN job.steps : job.steps[i].key = key

\* C24: for a Chinese target every compile that has returned ran xelatex;
\* when xelatex is missing the step that reaches the compile loop raises with
\* no attempt counted, and a job that failed for it has no compile_try step.
C24_ChineseEngine ==
    /\ payload.chinese /\ task.pc = "compile" /\ fut.state = "ok" =>
           fut.value.compiler = "xelatex"
    /\ payload.chinese => loc.compile_result.compiler \in {"none", "xelatex"}
    /\ payload.chinese /\ Resumed("ctex_inject") =>
           /\ ToCompile(Here, FALSE).kind = "raise"
           /\ ToCompile(Here, FALSE).exc = << "xelatex_missing" >>
    /\ job.error = << "xelatex_missing" >> =>
           /\ payload.chinese
           /\ job.status = "failed"
           /\ job.meta.compile_attempts = 0
           /\ ~HasStep("compile_try")

\* C24: the second compile attempt of a job for a Chinese target has returned.
C24_SecondAttemptXelatex ==
    /\ payload.chinese
    /\ task.pc = "compile"
    /\ fut.state = "ok"
    /\ job.meta.compile_attempts = 2
    /\ fut.value.compiler = "xelatex"

\* The current texts of the segments from index i on, one after the other.
RECURSIVE CurrentTexts(_, _)
CurrentTexts(segments, i) ==
    IF i > Len(segments) THEN << >>
    ELSE segments[i].current \o CurrentTexts(segments, i + 1)

\* The k-th chunk sent for the file is the original text of the k-th
\* translatable non-blank segment; its segment holds a guarded backend result
\* for that chunk, or the original text once more after a repair.
HoldsOwnResult(state) ==
    LET idx == TranslatableIndices(state.segments)
    IN  \A k \in 1..Len(idx) :
            LET seg == state.segments[idx[k]]
            IN  \/ \E r \in BackendResults(seg.original) :
                     seg.current = guard_translated_segment(seg.original, r)
                \/ state.repaired_segments > 0 /\ seg.current = seg.original

\* C22: the text written for a file is ensure_section_title_bold of the
\* current texts of its segments in segment order, and the k-th translatable
\* segment holds the guarded result of the k-th chunk, in whatever order the
\* chunks completed.
C22_WrittenInSegmentOrder ==
    \A f \in DOMAIN loc.file_states :
        /\ loc.file_states[f].written =
               ensure_section_title_bold(CurrentTexts(loc.file_states[f].segments, 1))
        /\ HoldsOwnResult(loc.file_states[f])
        /\ \A i \in DOMAIN loc.file_states[f].segments :
               ~loc.file_states[f].segments[i].translatable =>
                   loc.file_states[f].segments[i].current
                       = loc.file_states[f].segments[i].original

\* C22 as stated: the text written is the current texts put together.
C22_WrittenIsConcatenation ==
    \A f \in DOMAIN loc.file_states :
        loc.file_states[f].written = CurrentTexts(loc.file_states[f].segments, 1)

\* C22: a file was written whose second chunk completed before the first,
\* both segments holding a translation.
C22_WrittenAfterReverseCompletion ==
    \E f \in DOMAIN loc.file_states :
        /\ loc.file_states[f].completed = << 2, 1 >>
        /\ loc.file_states[f].repaired_segments = 0
        /\ \A i \in DOMAIN loc.file_states[f].segments :
               loc.file_states[f].segments[i].translatable =>
                   loc.file_states[f].segments[i].current
                       # loc.file_states[f].segments[i].original

\* The steps of a snapshot show that the project was compiled and packed.
Packaged(snapshot) ==
    \E i \in DOMAIN snapshot.steps :
        snapshot.steps[i].key = "pack" /\ snapshot.steps[i].status = "done"

\* C23: a snapshot that create_job, get_job or cancel_job returns, from memory
\* or rebuilt from the record on disk, lists artifacts only if the job was
\* compiled and packed; a failed or cancelled job that was not lists none,
\* and a succeeded job lists the translated PDF and the project zip.
C23_ArtifactsOnlyAfterPackaging ==
    reply.outcome = "ok" =>
        /\ reply.snapshot.artifacts # << >> => Packaged(reply.snapshot)
        /\ reply.snapshot.status = "succeeded" =>
              /\ \E i \in DOMAIN reply.snapshot.artifacts :
                    reply.snapshot.artifacts[i] = "translate_zh.pdf"
              /\ \E i \in DOMAIN reply.snapshot.artifacts :
                    reply.snapshot.artifacts[i] = "project.zip"

\* The commands of the attempt that ran to their end or to their timeout.
Started == cRun.error # "RuntimeError"

\* C25: compile_latex_project returns compile_ok = true if and only if the
\* PDF exists with nonzero size at the end of the attempt, the exit code of
\* the last invocation is zero and the log of the attempt holds no Emergency
\* stop; how an earlier invocation ended (timeout, nonzero exit) does not
\* enter it.
C25_CompileOk ==
    ( cRun.pc \in { "returned", "raised" } /\ Started ) =>
        ( ( cRun.pc = "returned" /\ cRun.compile_ok )
            <=> /\ cRun.plan.pdf = "full"
                /\ cRun.plan.third = "zero"
                /\ ~HasEmergencyStop(cRun.log_text) )

\* The status set list_jobs was asked for: the words without blanks, in lower
\* case; succeeded when none is left.
AskedStatuses ==
    LET asked == { NormalStatus(hist.statuses[i]) : i \in DOMAIN hist.statuses } \ { "" }
    IN  IF asked = {} THEN { "succeeded" } ELSE asked

\* The versions of the jobs, on disk and in memory, that make a row of the
\* status set.
RowVersions ==
    { r \in { hist.on_disk[i] : i \in DOMAIN hist.on_disk }
              \cup { hist.live[i] : i \in DOMAIN hist.live } :
        r.status \in AskedStatuses /\ HasRow(r) }

\* C26: list_jobs returns at most one row per job_id, every row has a status
\* of the status set (succeeded when the set is absent or empty), the row of a
\* job is its version with the latest updated_at, the rows are in descending
\* order of updated_at, and they are the first min(max(1, limit), 200) of
\* that order.
C26_ListJobs ==
    hist.pc = "returned" =>
        LET items == hist.items
            ids   == { r.job_id : r \in RowVersions }
            listed == { items[i].job_id : i \in DOMAIN items }
        IN  /\ \A i, k \in DOMAIN items : items[i].job_id = items[k].job_id => i = k
            /\ \A i \in DOMAIN items : items[i].status \in AskedStatuses
            /\ hist.statuses = << >> => \A i \in DOMAIN items : items[i].status = "succeeded"
            /\ \A i \in DOMAIN items :
                 /\ items[i] \in RowVersions
                 /\ \A r \in RowVersions :
                      r.job_id = items[i].job_id => r.updated_at <= items[i].updated_at
            /\ \A i, k \in DOMAIN items : i < k => items[i].updated_at >= items[k].updated_at
            /\ Len(items) = Min2(Min2(Max2(1, hist.limit), MaxItems), Cardinality(ids))
            /\ \A r \in RowVersions :
                 r.job_id \notin listed => r.updated_at <= items[Len(items)].updated_at

\* C26: list_jobs returned two rows of three jobs; the row of a job is the
\* version in memory, newer than its record on disk.
C26_NewerVersionListed ==
    /\ hist.pc = "returned"
    /\ hist.limit = 2
    /\ Len(hist.items) = 2
    /\ Cardinality({ r.job_id : r \in RowVersions }) = 3
    /\ \E i \in DOMAIN hist.items, d \in DOMAIN hist.on_disk, m \in DOMAIN hist.live :
         /\ hist.on_disk[d].job_id = hist.items[i].job_id
         /\ hist.live[m].job_id = hist.items[i].job_id
         /\ hist.on_disk[d].updated_at < hist.live[m].updated_at
         /\ hist.items[i] = hist.live[m]

\* C31: wherever the job task is suspended at an await (a function of the
\* thread pool or translate_chunks), the job.json on disk equals the snapshot
\* of the job in memory: status, steps, artifacts and meta.
C31_PersistedAtAwaits ==
    task.pc \in ThreadPcs \cup { "translate" } =>
        /\ disk.status = job.status
        /\ disk.steps = job.steps
        /\ disk.artifacts = job.artifacts
        /\ disk.meta = job.meta

\* text.split("\n")[n - 1]; a text without an n-th line has none.
LineAt(text, n) ==
    LET nl    == { i \in 1..Len(text) : text[i] = "\n" }
        upTo  == [ k \in 0..Cardinality(nl) |->
                     IF k = 0 THEN 0
                     ELSE CHOOSE i \in nl : Cardinality({ j \in nl : j <= i }) = k ]
    IN  IF n < 1 \/ n > Cardinality(nl) + 1 THEN << "no_such_line" >>
        ELSE SubSeq(text, upTo[n - 1] + 1,
                    IF n = Cardinality(nl) + 1 THEN Len(text) ELSE upTo[n] - 1)

\* part occurs in whole as a run of tokens.
Within(part, whole) ==
    \E i \in 0..(Len(whole) - Len(part)) : SubSeq(whole, i + 1, i + Len(part)) = part

\* The line ranges of the segments of a file state are those of the file on
\* disk.
LineAccurate(state) ==
    LET segments == state.segments
        text     == OnDisk(state)
    IN  /\ segments # << >> => segments[1].start_line = 1
        /\ \A i \in DOMAIN segments :
             /\ segments[i].end_line
                  = segments[i].start_line + Count(segments[i].current, "\n")
             /\ i > 1 => segments[i].start_line = segments[i - 1].end_line
             /\ ensure_section_title_bold(segments[i].current) = segments[i].current =>
                  \A k \in 0..Count(segments[i].current, "\n") :
                     Within(LineAt(segments[i].current, k + 1),
                            LineAt(text, segments[i].start_line + k))
        /\ segments # << >> =>
             Count(text, "\n") + 1 = segments[Len(segments)].end_line

\* C32: for every file state, once the file is translated and after every
\* repair, the line ranges of the segments are those of the file on disk: the
\* first range starts at line 1, each range ends at its start plus the
\* newlines of the segment, each starts where the one before ends, and line k
\* of a segment is on line start_line + k - 1 of the file, also in the main
\* file once the CJK support lines are in it.
C32_LineAccurate ==
    \A f \in DOMAIN loc.file_states : LineAccurate(loc.file_states[f])

\* C32: the same, for a job that does not translate into Chinese.
C32_LineAccurateWithoutCtex ==
    ~payload.chinese => C32_LineAccurate

\* C32: a repair reset a segment of a file that is not in Chinese, and the
\* ranges of a file are those of two translated segments.
C32_AfterRepair ==
    /\ ~payload.chinese
    /\ \E f \in DOMAIN loc.file_states :
         /\ loc.file_states[f].repaired_segments > 0
         /\ Len(loc.file_states[f].segments) = 3
         /\ \E i \in DOMAIN loc.file_states[f].segments :
              Translated(loc.file_states[f].segments[i])

\* The segment is sent to the translator: translatable and not blank.
IsChunk(seg) == seg.translatable /\ Strip(seg.original) # << >>

\* C33: in every file state the current text of a segment is its original
\* text or what guard_translated_segment makes of the original and a
\* translation the backend gave for it; a segment that is not translatable
\* or is blank keeps its original text throughout.
C33_OriginalOrGuarded ==
    \A f \in DOMAIN loc.file_states :
        \A i \in DOMAIN loc.file_states[f].segments :
            LET seg == loc.file_states[f].segments[i]
            IN  /\ \/ seg.current = seg.original
                   \/ \E r \in BackendResults(seg.original) :
                        seg.current = guard_translated_segment(seg.original, r)
                /\ ~IsChunk(seg) => seg.current = seg.original

\* C33: a file ending with a blank translatable segment has a segment that
\* holds a guarded translation and, after a repair, one that holds the
\* original text again.
C33_TranslatedRepairedAndBlank ==
    \E f \in DOMAIN loc.file_states :
        LET segments == loc.file_states[f].segments
        IN  /\ loc.file_states[f].repaired_segments > 0
            /\ \E i \in DOMAIN segments : Translated(segments[i])
            /\ \E i \in DOMAIN segments : IsChunk(segments[i]) /\ ~Translated(segments[i])
            /\ \E i \in DOMAIN segments : segments[i].translatable /\ ~IsChunk(segments[i])

\* The segments of the job whose current text is not the original text.
RECURSIVE TranslatedIn(_, _)
TranslatedIn(file_states, f) ==
    IF f > Len(file_states) THEN 0
    ELSE Cardinality({ i \in DOMAIN file_states[f].segments :
                         file_states[f].segments[i].current
                           # file_states[f].segments[i].original })
           + TranslatedIn(file_states, f + 1)

RECURSIVE RepairedIn(_, _)
RepairedIn(file_states, f) ==
    IF f > Len(file_states) THEN 0
    ELSE file_states[f].repaired_segments + RepairedIn(file_states, f + 1)

RECURSIVE ChunksIn(_, _)
ChunksIn(file_states, f) ==
    IF f > Len(file_states) THEN 0
    ELSE Cardinality({ i \in DOMAIN file_states[f].segments :
                         IsChunk(file_states[f].segments[i]) })
           + ChunksIn(file_states, f + 1)

\* The steps compile_fix/running of the job: its successful repairs.
SuccessfulRepairs ==
    Cardinality({ i \in DOMAIN job.steps :
                    job.steps[i].key = "compile_fix" /\ job.steps[i].status = "running" })

\* _repair_file_state returns in this step.
RepairReturns == task.pc = "repair" /\ fut.state = "pending" /\ fut'.state = "ok"

\* The file the compile error names has no segment left with a translation.
NothingToReset ==
    \/ ErrRel(loc.compile_result) \notin DOMAIN loc.file_states
    \/ TranslatedIn(<< loc.file_states[ErrRel(loc.compile_result)] >>, 1) = 0

\* While the compile loop runs, the successful repairs of the job are no more
\* than the segments reset, and those together with the segments that still
\* hold a translation are no more than the chunks that were translated.
RepairsBounded ==
    loc.attempt >= 1 =>
        /\ SuccessfulRepairs <= RepairedIn(loc.file_states, 1)
        /\ RepairedIn(loc.file_states, 1) + TranslatedIn(loc.file_states, 1)
             <= ChunksIn(loc.file_states, 1)

\* C34: a repair that reports success resets at least one segment, so the
\* number of segments whose current text differs from the original goes down
\* with it; in the compile phase the number never goes up; the successful
\* repairs are no more than the translated segments; a repair that finds no
\* translated segment in the file of the error reports failure, and the
\* loop ends with the step compile_fix/error and a failed job.
C34_RepairStep ==
    [][ /\ RepairsBounded'
        /\ RepairReturns /\ fut'.value =>
            TranslatedIn(loc'.file_states, 1) < TranslatedIn(loc.file_states, 1)
        /\ loc.attempt >= 1 =>
            TranslatedIn(loc'.file_states, 1) <= TranslatedIn(loc.file_states, 1)
        /\ RepairReturns /\ NothingToReset => ~fut'.value
        /\ RepairReturns /\ ~NothingToReset => fut'.value
        /\ task.pc = "repair" /\ fut.state = "ok" /\ ~fut.value /\ task'.pc # "repair"
             /\ ~task.must_cancel =>
               /\ job'.status = "failed"
               /\ \E i \in DOMAIN job'.steps :
                    job'.steps[i].key = "compile_fix" /\ job'.steps[i].status = "error"
      ]_vars

\* C34: the attempt after a successful repair compiles; the repair reset the
\* two translated segments of the job at once.
C34_AfterRepairOfTwo ==
    /\ task.pc = "compile"
    /\ SuccessfulRepairs = 1
    /\ RepairedIn(loc.file_states, 1) = 2
    /\ TranslatedIn(loc.file_states, 1) = 0

\* The text holds the ctex package and the font fallback block.
HasCtexSupport(text) ==
    /\ \E i \in 1..Len(text) : text[i] \in { CtexPlain, CtexUtf8 }
    /\ \E i \in 1..Len(text) : text[i] = _CJK_FALLBACK_BEGIN
    /\ \E i \in 1..Len(text) : text[i] = _CJK_FALLBACK_END

C36_NoStalePdf ==
    /\ cRun.pc \notin { "idle", "first" } => cRun.pdf_file # "stale"
    /\ cRun.pc = "returned" /\ (cRun.pdf_exists \/ cRun.compile_ok) =>
         cRun.plan.pdf = "full"

\* C36: an attempt found the PDF of an earlier attempt, its invocations wrote
\* none and the last one ended with exit code 0 and no Emergency stop; the
\* attempt reports no PDF.
C36_StalePdfNotCounted ==
    /\ cRun.pc = "returned"
    /\ cRun.plan.prior_pdf
    /\ cRun.plan.pdf = "none"
    /\ cRun.plan.third = "zero"
    /\ ~cRun.has_emergency_stop
    /\ ~cRun.pdf_exists
    /\ ~cRun.compile_ok

\* 0 <= guard_fallback_chunks <= translated_chunks <= total_chunks
CountersOrdered(meta) ==
    /\ 0 <= meta.guard_fallback_chunks
    /\ meta.guard_fallback_chunks <= meta.translated_chunks
    /\ meta.translated_chunks <= meta.total_chunks

\* C37: in memory and in the record on disk, guard_fallback_chunks is at
\* least 0 and at most translated_chunks, translated_chunks is at most
\* total_chunks, and translated_chunks never goes down, over all files and in
\* whatever order the chunks complete.
C37_Counters ==
    [][ /\ CountersOrdered(job'.meta)
        /\ CountersOrdered(disk'.meta)
        /\ job'.meta.translated_chunks >= job.meta.translated_chunks
        /\ disk'.meta.translated_chunks >= disk.meta.translated_chunks
      ]_vars

\* C37: the chunk of the second file is translated after the chunk of the
\* first file fell back to its original text.
C37_SecondFileCounted ==
    /\ loc.file = 2
    /\ job.meta.total_chunks = 2
    /\ job.meta.translated_chunks = 2
    /\ job.meta.guard_fallback_chunks = 1
    /\ disk.meta = job.meta

\* get_job finds the job: in the registry, or as a record on disk.
GetJobFinds(job_id) ==
    job_id \in jobs \/ _load_job_snapshot_from_disk(job_id).found

\* C38: cancel_job finds a job where get_job finds it, in the registry and
\* then among the records on disk: called with an id for which get_job
\* returns a snapshot it returns a snapshot too, not KeyError, also for a
\* terminal job that exists as a record on disk only.
C38_CancelFindsWhatGetFinds ==
    [][ reply.op = "none" /\ reply'.op = "cancel" /\ GetJobFinds(reply'.id) =>
            reply'.outcome = "ok"
      ]_vars

\* get_job answered for the job of the earlier run, which no task drives,
\* with the status running.
ReportsRunning ==
    /\ reply.op = "get"
    /\ reply.outcome = "ok"
    /\ reply.job_id = PriorJobId
    /\ PriorJobId \notin jobs
    /\ reply.snapshot.status = "running"

\* C39: a job that was running when the process ended and the registry was
\* lost is resumed or brought to an end from its record on disk: from some
\* point on get_job no longer answers running for a job without a task.
C39_NotRunningForever == <>[](~ReportsRunning)

\* The lookups that ran found the job that create_job wrote, at the paths it
\* was written to.
FoundAgain ==
    /\ "get" \in store.done =>
         /\ store.got.found
         /\ store.got.job_root = store.job_root
    /\ "list" \in store.done => store.job_id \in store.listed
    /\ "cache" \in store.done /\ store.cached.found =>
         store.cached.job_root = store.job_root

\* C40: for every form of identifier create_job accepts, old-style ids with a
\* "/" in the canonical id (hep-th/9901001) among them, the record written
\* for a job is found again on disk by its job_id, by get_job once the
\* registry is lost and by list_jobs, and the job paths derived from the place
\* of the record are the paths the job was written to.
C40_RoundTrip == FoundAgain

\* C40: the same for the identifiers whose canonical id holds no "/".
C40_RoundTripNewStyle ==
    Len(PathParts(store.canonical_id)) = 1 => FoundAgain

\* C40: the three lookups ran for a succeeded job with a new-style id next to
\* the record of another job, and found it with its output files.
C40_NewStyleFound ==
    /\ store.done = { "get", "list", "cache" }
    /\ store.input_text = "2401.00001v2"
    /\ OtherRecord \in store.records
    /\ store.got.found /\ store.got.artifacts
    /\ store.cached.found /\ store.cached.artifacts
    /\ store.listed = { "job-0", store.job_id }

====
